---------------------------- MODULE Spec2Model ----------------------------
(***************************************************************************)
(* Cart / order / inventory model of the online store.                     *)
(*                                                                         *)
(*   app.py    session cart, Product and Order tables, the two order       *)
(*             endpoints and the admin product CRUD   (SpecApp)            *)
(*   store.py  JSON-file / Supabase product store, stock check, stock      *)
(*             reduction and POST /api/cart/checkout  (SpecStore,          *)
(*             SpecStoreConc)                                              *)
(*   supabase_helpers.py  the menu_items table of Supabase, the in-memory  *)
(*             products cache and its JSON file       (SpecHelpers)        *)
(*                                                                         *)
(* Money is kept in cents.  Every specification ranges over all variables; *)
(* the variables of the other program keep their initial value.            *)
(***************************************************************************)
EXTENDS Integers, Sequences, FiniteSets, TLC

VARIABLES
    products,     \* app.py  Product table: id -> [name, price, is_active]
    cart,         \* app.py  session["cart"] of every session: key -> qty
    orders,       \* app.py  Order table, in insertion (id) order
    last,         \* app.py  the last request and its response
    okCheckouts,  \* app.py  history: number of order requests answered ok=true
    req,          \* history: the key and qty sent by the last cart or delete request,
                  \*          or the customer record of the last order request
    requests,     \* history: number of requests handled so far
    sbOn,         \* store.py  supabase_client is configured
    sbTable,      \* store.py  rows of the Supabase table 'products': id -> quantity
    dataFile,     \* store.py  products.json: whether it exists, and id -> quantity
    whatsapp,     \* store.py  the whatsapp_phone setting is non-empty
    proc,         \* store.py  the checkout request each worker is serving
    menu_items,      \* supabase_helpers.py  Supabase table menu_items: id -> row
    products_cache,  \* supabase_helpers.py  the module global _products_cache
    products_file,   \* supabase_helpers.py  PRODUCTS_FILE (products_cache.json)
    hres,            \* supabase_helpers.py  the last call and what it returned
    hproc,           \* supabase_helpers.py  the change_item_quantity call of each worker
    menu_categories,   \* supabase_helpers.py  Supabase table menu_categories: the ids
    categories_cache,  \* supabase_helpers.py  the module global _categories_cache
    categories_file,   \* supabase_helpers.py  CATEGORIES_FILE (categories_cache.json)
    is_admin,      \* store.py  session["is_admin"] of every session
    settingsFile,  \* store.py  settings.json: whether it exists, and its keys
    siteSettings,  \* store.py  Supabase table site_settings: logo_url, whatsapp_phone
    catFile,       \* store.py  categories.json: whether it exists, and its list
    catTable,      \* store.py  rows of the Supabase table 'categories'
    slast          \* store.py  the last admin request / call and its answer

appVars == <<products, cart, orders, last, okCheckouts, req>>

storeVars == <<sbOn, sbTable, dataFile, whatsapp, proc>>

catVars == <<menu_categories, categories_cache, categories_file>>

helperVars == <<menu_items, products_cache, products_file, hres, hproc,
                menu_categories, categories_cache, categories_file>>

adminVars == <<is_admin, settingsFile, siteSettings, catFile, catTable, slast>>

vars == <<products, cart, orders, last, okCheckouts, req, requests,
          sbOn, sbTable, dataFile, whatsapp, proc,
          menu_items, products_cache, products_file, hres, hproc,
          menu_categories, categories_cache, categories_file,
          is_admin, settingsFile, siteSettings, catFile, catTable, slast>>

(***************************************************************************)
(* Bounds of the model                                                     *)
(***************************************************************************)
\* highest Product id the admin creates
MaxPid == 2
\* highest quantity a cart entry is driven to
MaxQty == 2
\* number of orders created in one behaviour
MaxOrders == 2
\* number of requests to app.py in one behaviour
MaxRequests == 6
\* number of requests to store.py in one behaviour
MaxStoreRequests == 3
\* number of lines of a checkout payload
MaxLines == 2
\* highest quantity a product is driven to
MaxStock == 6
\* highest id of a row of menu_items
MaxItemId == 2
\* highest quantity a row of menu_items holds
MaxItemQty == 2
\* lowest quantity set_item_quantity is given: -MaxDebt
MaxDebt == 1
\* largest change change_item_quantity is given, up or down
MaxDelta == 2
\* highest id of a row of menu_categories
MaxCatId == 2
\* number of product administration calls to store.py in one behaviour
MaxAdminRequests == 3
\* calls of the helpers of supabase_helpers.py, and writes of other clients
MaxHelperCalls == 4
\* requests to the admin routes of store.py in one behaviour
MaxRouteRequests == 3
\* calls of the category functions of store.py in one behaviour
MaxCategoryCalls == 4

Sessions == {"s1", "s2"}

\* the workers serving store.py requests
Workers == {1, 2}

\* ProductForm submissions of the admin (name, price in cents, is_active);
\* price 0 is below NumberRange(min=0.01) and name "" fails DataRequired
FormInputs ==
    {[name |-> "A", price |-> 1000, is_active |-> TRUE],
     [name |-> "B", price |-> 750, is_active |-> TRUE],
     [name |-> "B", price |-> 750, is_active |-> FALSE],
     [name |-> "", price |-> 1000, is_active |-> TRUE],
     [name |-> "A", price |-> 0, is_active |-> TRUE]}

\* qty values a client sends
QtyInputs == (0 - 1) .. MaxQty

\* product_id values a client sends to /api/cart/add (after int())
PidInputs == 1 .. MaxPid

(***************************************************************************)
(* Cart keys.  session["cart"] is a dict keyed by strings; api_cart_add    *)
(* writes str(int), api_cart_update / api_cart_remove use                  *)
(* str(data.get("product_id")), which is "None" when the field is missing. *)
(* The session cookie is JSON with sorted keys, so a cart read back from   *)
(* the session iterates in the order of AllKeySeq.                         *)
(***************************************************************************)
AllKeySeq == <<"1", "2", "3", "None">>

\* str(product_id) for an int product_id
StrOfInt(n) == CASE n = 1 -> "1" [] n = 2 -> "2" [] n = 3 -> "3" [] OTHER -> "0"

\* whether int(key) succeeds, and its value
IsNumeric(k) == k \in {"0", "1", "2", "3"}
IntOfStr(k) == CASE k = "1" -> 1 [] k = "2" -> 2 [] k = "3" -> 3 [] OTHER -> 0

\* keys a client sends to /api/cart/update and /api/cart/remove
Keys == {StrOfInt(n) : n \in PidInputs} \cup {"None"}

EmptyCart == [k \in {} |-> 0]

\* no cart request recorded
NoReq == [key |-> "", qty |-> 0]

Max(a, b) == IF a >= b THEN a ELSE b

(***************************************************************************)
(* app.py helpers                                                          *)
(***************************************************************************)
\* cart[k] = q, as a dict assignment
DictSet(c, k, q) == [x \in (DOMAIN c) \cup {k} |-> IF x = k THEN q ELSE c[x]]

\* cart.pop(k, None)
DictPop(c, k) == [x \in (DOMAIN c) \ {k} |-> c[x]]

\* cart.get(k, 0)
DictGet(c, k) == IF k \in DOMAIN c THEN c[k] ELSE 0

RECURSIVE SumOver(_, _)
SumOver(c, S) ==
    IF S = {} THEN 0
    ELSE LET k == CHOOSE x \in S : TRUE IN c[k] + SumOver(c, S \ {k})

\* cart_count counting the entries instead of summing their quantities
cart_count_entries(c) == Cardinality(DOMAIN c)

\* cart_count(): sum(int(q) for q in c.values())
cart_count(c) == SumOver(c, DOMAIN c)

\* Product.query.get(id)
HasProduct(id) == id \in DOMAIN products

\* CartLine taking the unit price as the line total
CartLine_unit_price(k, qty) ==
    LET p == products[IntOfStr(k)] IN
    [id |-> IntOfStr(k), name |-> p.name, price |-> p.price, qty |-> qty,
     line_total |-> p.price]

\* one row of cart_items_and_total's items list
CartLine(k, qty) ==
    LET p == products[IntOfStr(k)] IN
    [id |-> IntOfStr(k), name |-> p.name, price |-> p.price, qty |-> qty,
     line_total |-> p.price * qty]

\* the items list over the keys of AllKeySeq from position i on: entries whose
\* product does not resolve are skipped
RECURSIVE ItemsFrom(_, _)
ItemsFrom(c, i) ==
    IF i > Len(AllKeySeq) THEN <<>>
    ELSE LET k == AllKeySeq[i] IN
         IF k \in DOMAIN c /\ IsNumeric(k) /\ HasProduct(IntOfStr(k))
         THEN <<CartLine(k, c[k])>> \o ItemsFrom(c, i + 1)
         ELSE ItemsFrom(c, i + 1)

RECURSIVE SumLines(_, _)
SumLines(items, i) ==
    IF i > Len(items) THEN 0 ELSE items[i].line_total + SumLines(items, i + 1)

\* cart_items_and_total without "if not p: continue": reading p.price of a
\* product that is gone raises
cart_items_and_total_no_skip(c) ==
    IF \E k \in DOMAIN c : ~IsNumeric(k) \/ ~HasProduct(IntOfStr(k))
    THEN [raised |-> TRUE, items |-> <<>>, total |-> 0]
    ELSE LET items == ItemsFrom(c, 1) IN
         [raised |-> FALSE, items |-> items, total |-> SumLines(items, 1)]

\* cart_items_and_total(): int(pid) raises ValueError on a non-numeric key
cart_items_and_total(c) ==
    IF \E k \in DOMAIN c : ~IsNumeric(k)
    THEN [raised |-> TRUE, items |-> <<>>, total |-> 0]
    ELSE LET items == ItemsFrom(c, 1) IN
         [raised |-> FALSE, items |-> items, total |-> SumLines(items, 1)]

\* float(price) written by json.dumps: the shortest decimal that reads back
\* as the same float, i.e. the cents without a trailing zero (12.5, 10.0)
FloatRepr(cents) ==
    [whole |-> cents \div 100,
     frac  |-> IF cents % 10 = 0 THEN <<(cents % 100) \div 10>>
               ELSE <<(cents % 100) \div 10, cents % 10>>]

\* the amount in cents a JSON number of an order line stands for
CentsOfRepr(r) ==
    r.whole * 100 + r.frac[1] * 10 + (IF Len(r.frac) > 1 THEN r.frac[2] ELSE 0)

\* order_item storing the line total as the price
order_item_line_total(i) ==
    [id |-> i.id, name |-> i.name, price |-> FloatRepr(i.line_total), qty |-> i.qty]

\* one element of order_items
order_item(i) ==
    [id |-> i.id, name |-> i.name, price |-> FloatRepr(i.price), qty |-> i.qty]

order_items(items) == [n \in 1 .. Len(items) |-> order_item(items[n])]

\* str.strip() of a customer field
Strip(v) == IF v = " " THEN "" ELSE v

\* add_qty without the clamp: qty = int(data.get("qty", 1))
add_qty_unclamped(q) == q

\* qty = max(1, int(data.get("qty", 1))) in api_cart_add
add_qty(q) == Max(1, q)

\* cart_after_order dropping only the entries that went into the order
cart_after_order_unresolved_kept(c) ==
    [k \in {x \in DOMAIN c : ~(IsNumeric(x) /\ HasProduct(IntOfStr(x)))} |-> c[k]]

\* set_cart({}) after the order is committed
cart_after_order(c) == EmptyCart

\* order_status writing 'unpaid' on the manual path
order_status_unpaid(method) == IF method = "paypal" THEN "paid" ELSE "unpaid"

\* status column written by each endpoint
order_status(method) == IF method = "paypal" THEN "paid" ELSE "pending"

Resp(op, sid, ok, err, confirmed) ==
    [op |-> op, sid |-> sid, ok |-> ok, err |-> err, confirmed |-> confirmed]

\* jsonify({"ok": True, "cart_count": cart_count()})
RespAdd(sid, count) ==
    [op |-> "api_cart_add", sid |-> sid, ok |-> TRUE, err |-> "", confirmed |-> FALSE,
     cart_count |-> count]

\* jsonify({"ok": True, "cart_count": cart_count(), "subtotal": float(total)})
RespCart(op, sid, count, total) ==
    [op |-> op, sid |-> sid, ok |-> TRUE, err |-> "", confirmed |-> FALSE,
     cart_count |-> count, subtotal |-> FloatRepr(total)]

(***************************************************************************)
(* app.py: cart API.  A response is produced for every request; a handler  *)
(* that raises answers 500, and the session it modified before raising is  *)
(* still saved with that response (create_app() as served by wsgi.py).     *)
(***************************************************************************)
\* api_cart_add without the test of is_active
api_cart_add_inactive_allowed(s, product_id, q) ==
    LET qty == add_qty(q)
        key == StrOfInt(product_id)
        c   == cart[s]
    IN  IF ~HasProduct(product_id)
        THEN /\ last' = Resp("api_cart_add", s, FALSE, "Product not available", FALSE)
             /\ UNCHANGED <<products, cart, orders>>
        ELSE /\ cart' = [cart EXCEPT ![s] = DictSet(c, key, DictGet(c, key) + qty)]
             /\ last' = RespAdd(s, cart_count(DictSet(c, key, DictGet(c, key) + qty)))
             /\ UNCHANGED <<products, orders>>

\* POST /api/cart/add
api_cart_add(s, product_id, q) ==
    LET qty == add_qty(q)
        key == StrOfInt(product_id)
        c   == cart[s]
    IN  IF ~HasProduct(product_id) \/ ~products[product_id].is_active
        THEN /\ last' = Resp("api_cart_add", s, FALSE, "Product not available", FALSE)
             /\ UNCHANGED <<products, cart, orders>>
        ELSE /\ cart' = [cart EXCEPT ![s] = DictSet(c, key, DictGet(c, key) + qty)]
             /\ last' = RespAdd(s, cart_count(DictSet(c, key, DictGet(c, key) + qty)))
             /\ UNCHANGED <<products, orders>>

\* the cart written by api_cart_update before it recomputes the totals
cart_updated(c, key, qty) ==
    IF qty <= 0 THEN DictPop(c, key) ELSE DictSet(c, key, qty)

\* api_cart_update returning the line subtotal of the updated product when
\* that product is still in the cart
api_cart_update_line_subtotal(s, key, qty) ==
    LET c2 == cart_updated(cart[s], key, qty)
        r  == cart_items_and_total(c2)
        n  == IntOfStr(key)
    IN  /\ cart' = [cart EXCEPT ![s] = c2]
        /\ last' = IF r.raised
                   THEN Resp("api_cart_update", s, FALSE, "500", FALSE)
                   ELSE IF key \in DOMAIN c2 /\ HasProduct(n)
                   THEN RespCart("api_cart_update", s, cart_count(c2),
                                 products[n].price * c2[key])
                   ELSE RespCart("api_cart_update", s, cart_count(c2), r.total)
        /\ UNCHANGED <<products, orders>>

\* POST /api/cart/update
api_cart_update(s, key, qty) ==
    LET c2 == cart_updated(cart[s], key, qty)
        r  == cart_items_and_total(c2)
    IN  /\ cart' = [cart EXCEPT ![s] = c2]
        /\ last' = IF r.raised
                   THEN Resp("api_cart_update", s, FALSE, "500", FALSE)
                   ELSE RespCart("api_cart_update", s, cart_count(c2), r.total)
        /\ UNCHANGED <<products, orders>>

\* POST /api/cart/remove
api_cart_remove(s, key) ==
    LET c2 == DictPop(cart[s], key)
        r  == cart_items_and_total(c2)
    IN  /\ cart' = [cart EXCEPT ![s] = c2]
        /\ last' = IF r.raised
                   THEN Resp("api_cart_remove", s, FALSE, "500", FALSE)
                   ELSE RespCart("api_cart_remove", s, cart_count(c2), r.total)
        /\ UNCHANGED <<products, orders>>

(***************************************************************************)
(* app.py: the order endpoints.  info is the customer record of the        *)
(* request, commitOK whether db.session.commit() succeeds, confirmed       *)
(* whether the payment provider confirmed a payment before the request     *)
(* was sent (the handlers read no such field).                             *)
(***************************************************************************)
FullInfo == [name |-> "a", email |-> "a", phone |-> "a", address |-> "a"]

\* customer records a client sends: complete, or one field empty or blank
InfoRecords ==
    {FullInfo,
     [FullInfo EXCEPT !.name = " "], [FullInfo EXCEPT !.email = ""],
     [FullInfo EXCEPT !.phone = " "], [FullInfo EXCEPT !.address = ""]}

\* info_complete looking at the name alone
info_complete_name_only(info) == Strip(info.name) # ""

\* all([name, email, phone, address]) after .strip()
info_complete(info) ==
    /\ Strip(info.name) # ""
    /\ Strip(info.email) # ""
    /\ Strip(info.phone) # ""
    /\ Strip(info.address) # ""

\* the Order row built by an order endpoint
new_order(method, info, r) ==
    [items_json     |-> order_items(r.items),
     subtotal       |-> r.total,
     customer_name  |-> Strip(info.name),
     email          |-> Strip(info.email),
     phone          |-> Strip(info.phone),
     address        |-> Strip(info.address),
     payment_method |-> method,
     status         |-> order_status(method)]

\* orders_committed keeping the row of a commit that raised
orders_committed_always(os, order, commitOK) == Append(os, order)

\* rows of the Order table after db.session.add(order); db.session.commit()
orders_committed(os, order, commitOK) ==
    IF commitOK THEN Append(os, order) ELSE os

api_order(op, method, s, info, commitOK, confirmed) ==
    LET r == cart_items_and_total(cart[s]) IN
    IF ~info_complete(info)
    THEN /\ last' = Resp(op, s, FALSE, "Missing customer information.", confirmed)
         /\ UNCHANGED <<products, cart, orders>>
    ELSE IF r.raised
    THEN /\ last' = Resp(op, s, FALSE, "500", confirmed)
         /\ UNCHANGED <<products, cart, orders>>
    ELSE IF r.items = <<>>
    THEN /\ last' = Resp(op, s, FALSE, "Cart is empty.", confirmed)
         /\ UNCHANGED <<products, cart, orders>>
    ELSE /\ orders' = orders_committed(orders, new_order(method, info, r), commitOK)
         /\ IF commitOK
            THEN /\ cart' = [cart EXCEPT ![s] = cart_after_order(cart[s])]
                 /\ last' = Resp(op, s, TRUE, "", confirmed)
            ELSE /\ last' = Resp(op, s, FALSE, "500", confirmed)
                 /\ UNCHANGED cart
         /\ UNCHANGED products

\* POST /api/order/paypal
api_order_paypal(s, info, commitOK, confirmed) ==
    api_order("api_order_paypal", "paypal", s, info, commitOK, confirmed)

\* POST /api/order/mmg
api_order_mmg(s, info, commitOK) ==
    api_order("api_order_mmg", "mmg", s, info, commitOK, FALSE)

(***************************************************************************)
(* app.py: admin product CRUD (requests of a logged-in admin; login_required *)
(* turns every other request away before the handler runs).                *)
(***************************************************************************)
\* ProductForm.validate_on_submit(): name DataRequired, price NumberRange(min=0.01)
form_valid(name, price) == name # "" /\ price >= 1

\* the primary key the database gives a new row: max(id) + 1
next_id == IF DOMAIN products = {} THEN 1
           ELSE (CHOOSE m \in DOMAIN products : \A x \in DOMAIN products : x <= m) + 1

\* POST /admin/products/new
admin_products_new(name, price, active) ==
    IF ~form_valid(name, price)
    THEN /\ last' = Resp("admin_products_new", "admin", FALSE, "invalid", FALSE)
         /\ UNCHANGED <<products, cart, orders>>
    ELSE /\ products' = [i \in (DOMAIN products) \cup {next_id} |->
                           IF i = next_id
                           THEN [name |-> name, price |-> price, is_active |-> active]
                           ELSE products[i]]
         /\ last' = Resp("admin_products_new", "admin", TRUE, "", FALSE)
         /\ UNCHANGED <<cart, orders>>

\* POST /admin/products/<pid>/edit
admin_products_edit(pid, name, price, active) ==
    IF ~HasProduct(pid)
    THEN /\ last' = Resp("admin_products_edit", "admin", FALSE, "404", FALSE)
         /\ UNCHANGED <<products, cart, orders>>
    ELSE IF ~form_valid(name, price)
    THEN /\ last' = Resp("admin_products_edit", "admin", FALSE, "invalid", FALSE)
         /\ UNCHANGED <<products, cart, orders>>
    ELSE /\ products' = [products EXCEPT ![pid] =
                           [name |-> name, price |-> price, is_active |-> active]]
         /\ last' = Resp("admin_products_edit", "admin", TRUE, "", FALSE)
         /\ UNCHANGED <<cart, orders>>

\* POST /admin/products/<pid>/delete
admin_products_delete(pid) ==
    IF ~HasProduct(pid)
    THEN /\ last' = Resp("admin_products_delete", "admin", FALSE, "404", FALSE)
         /\ UNCHANGED <<products, cart, orders>>
    ELSE /\ products' = [i \in (DOMAIN products) \ {pid} |-> products[i]]
         /\ last' = Resp("admin_products_delete", "admin", TRUE, "", FALSE)
         /\ UNCHANGED <<cart, orders>>

(***************************************************************************)
(* store.py: the product store.  load_products reads the Supabase table    *)
(* when a client is configured, the select succeeds and returns rows;      *)
(* otherwise products.json, which it creates with the default products     *)
(* when missing.  save_products rewrites products.json and upserts every   *)
(* row; a failing Supabase call is caught and only printed.  selOK, upOK,  *)
(* insOK, updOK say whether the select, the upserts, the insert and the    *)
(* update of one call succeed.                                             *)
(***************************************************************************)
NoRows == [x \in {} |-> 0]

\* the default products of load_products kept in the model, with their
\* 'quantity' (p1004 Running Sneakers: 5, p1005 Leather Belt: 0)
Defaults == [x \in {"p1004", "p1005"} |-> IF x = "p1004" THEN 5 ELSE 0]

\* the id add_product draws from uuid4 for the product the admin creates
NewPid == "pNew"

StorePids == {"p1004", "p1005", NewPid}

\* table.upsert(product) for every product of rows
Upsert(table, rows) ==
    [x \in (DOMAIN table) \cup (DOMAIN rows) |->
        IF x \in DOMAIN rows THEN rows[x] ELSE table[x]]

save_products(rows, file, table, upOK) ==
    [file  |-> [exists |-> TRUE, rows |-> rows],
     table |-> IF sbOn /\ upOK THEN Upsert(table, rows) ELSE table]

load_products(file, table, selOK, upOK) ==
    IF sbOn /\ selOK /\ DOMAIN table # {}
    THEN [rows |-> table, file |-> file, table |-> table]
    ELSE IF ~file.exists
    THEN LET w == save_products(Defaults, file, table, upOK)
         IN  [rows |-> Defaults, file |-> w.file, table |-> w.table]
    ELSE [rows |-> file.rows, file |-> file, table |-> table]

\* check_stock_availability(pid, requested_qty) on the loaded products
check_stock_availability(rows, pid, requested_qty) ==
    IF pid \notin DOMAIN rows THEN "Product not found"
    ELSE IF rows[pid] <= 0 THEN "Product is out of stock"
    ELSE IF requested_qty > rows[pid] THEN "Only N items available in stock"
    ELSE "Available"

\* reduce_stock(pid, quantity) up to its write: the message of the early
\* return, or "" when the product is found and current_stock >= quantity
reduce_stock_refusal(rows, pid, quantity) ==
    IF pid \notin DOMAIN rows THEN "Product not found"
    ELSE IF rows[pid] < quantity THEN "Insufficient stock"
    ELSE ""

\* product['quantity'] = current_stock - quantity
reduced(rows, pid, quantity) == [rows EXCEPT ![pid] = @ - quantity]

\* table('products').update({'quantity': q}).eq('id', pid)
update_quantity(table, pid, q, updOK) ==
    IF sbOn /\ updOK /\ pid \in DOMAIN table THEN [table EXCEPT ![pid] = q] ELSE table

\* the products a request reads when its select succeeds
StockView ==
    IF sbOn /\ DOMAIN sbTable # {} THEN sbTable
    ELSE IF dataFile.exists THEN dataFile.rows
    ELSE Defaults

\* product.get('quantity') of pid in rows, 0 for a product that is not there
QtyIn(rows, pid) == IF pid \in DOMAIN rows THEN rows[pid] ELSE 0

\* delete_product(pid): with a client, the row is deleted from the Supabase
\* table and True is returned, products.json is left as it is; without a
\* client, or when the delete raises (delOK FALSE), the loaded products
\* without pid are saved, and True is returned
delete_product(pid, delOK, selOK, upOK) ==
    LET l    == load_products(dataFile, sbTable, selOK, upOK)
        rows == [x \in (DOMAIN l.rows) \ {pid} |-> l.rows[x]]
        w    == save_products(rows, l.file, l.table, upOK)
    IN  /\ IF sbOn /\ delOK
           THEN /\ sbTable' = [x \in (DOMAIN sbTable) \ {pid} |-> sbTable[x]]
                /\ UNCHANGED dataFile
           ELSE /\ dataFile' = w.file
                /\ sbTable' = w.table
        /\ UNCHANGED <<sbOn, whatsapp, proc>>

(***************************************************************************)
(* store.py: POST /api/cart/checkout, one worker p serving one request.    *)
(* The handler is cut at its reads and writes of the product store: the    *)
(* stock check of a line, the load of reduce_stock, the save of            *)
(* reduce_stock.                                                           *)
(***************************************************************************)
Idle ==
    [pc |-> "idle", cart |-> <<>>, i |-> 0, errors |-> <<>>, snap |-> NoRows,
     ok |-> FALSE, message |-> "", before |-> NoRows]

\* the response is sent
Done(r, ok, message) ==
    [r EXCEPT !.pc = "done", !.ok = ok, !.message = message, !.snap = NoRows]

\* the request arrives: payload cart c, customer_name given or not
checkout_start(p, c, named) ==
    LET r == [Idle EXCEPT !.cart = c, !.before = StockView] IN
    /\ proc[p].pc = "idle"
    /\ proc' = [proc EXCEPT ![p] =
                  IF whatsapp /\ ~named
                  THEN Done(r, FALSE, "Customer name is required for WhatsApp checkout")
                  ELSE IF c = <<>>
                  THEN Done(r, TRUE, "Order received successfully!")
                  ELSE [r EXCEPT !.pc = "check", !.i = 1]]
    /\ UNCHANGED <<sbOn, sbTable, dataFile, whatsapp>>

\* checkout_check recording only the first line that fails the check
checkout_check_first_only(p, selOK, upOK) ==
    LET r    == proc[p]
        line == r.cart[r.i]
        l    == load_products(dataFile, sbTable, selOK, upOK)
        m    == check_stock_availability(l.rows, line.id, line.qty)
        errs == IF m = "Available" \/ r.errors # <<>> THEN r.errors
                ELSE Append(r.errors, [line |-> r.i, message |-> m])
        r2   == [r EXCEPT !.errors = errs]
    IN  /\ r.pc = "check"
        /\ dataFile' = l.file
        /\ sbTable' = l.table
        /\ proc' = [proc EXCEPT ![p] =
                      IF r.i < Len(r.cart) THEN [r2 EXCEPT !.i = r.i + 1]
                      ELSE IF errs # <<>> THEN Done(r2, FALSE, "Stock check failed")
                      ELSE [r2 EXCEPT !.pc = "reduce_load", !.i = 1]]
        /\ UNCHANGED <<sbOn, whatsapp>>

\* one turn of the loop "Check stock availability for all items first"
checkout_check(p, selOK, upOK) ==
    LET r    == proc[p]
        line == r.cart[r.i]
        l    == load_products(dataFile, sbTable, selOK, upOK)
        m    == check_stock_availability(l.rows, line.id, line.qty)
        errs == IF m = "Available" THEN r.errors
                ELSE Append(r.errors, [line |-> r.i, message |-> m])
        r2   == [r EXCEPT !.errors = errs]
    IN  /\ r.pc = "check"
        /\ dataFile' = l.file
        /\ sbTable' = l.table
        /\ proc' = [proc EXCEPT ![p] =
                      IF r.i < Len(r.cart) THEN [r2 EXCEPT !.i = r.i + 1]
                      ELSE IF errs # <<>> THEN Done(r2, FALSE, "Stock check failed")
                      ELSE [r2 EXCEPT !.pc = "reduce_load", !.i = 1]]
        /\ UNCHANGED <<sbOn, whatsapp>>

\* reduce_stock of line i: load_products and the two early returns
checkout_reduce_load(p, selOK, upOK) ==
    LET r    == proc[p]
        line == r.cart[r.i]
        l    == load_products(dataFile, sbTable, selOK, upOK)
        m    == reduce_stock_refusal(l.rows, line.id, line.qty)
    IN  /\ r.pc = "reduce_load"
        /\ dataFile' = l.file
        /\ sbTable' = l.table
        /\ proc' = [proc EXCEPT ![p] =
                      IF m # "" THEN Done(r, FALSE, "Stock reduction failed")
                      ELSE [r EXCEPT !.pc = "reduce_save",
                                     !.snap = reduced(l.rows, line.id, line.qty)]]
        /\ UNCHANGED <<sbOn, whatsapp>>

\* reduce_stock of line i: save_products, the Supabase update, return True
checkout_reduce_save(p, upOK, updOK) ==
    LET r    == proc[p]
        line == r.cart[r.i]
        w    == save_products(r.snap, dataFile, sbTable, upOK)
    IN  /\ r.pc = "reduce_save"
        /\ dataFile' = w.file
        /\ sbTable' = update_quantity(w.table, line.id, r.snap[line.id], updOK)
        /\ proc' = [proc EXCEPT ![p] =
                      IF r.i < Len(r.cart)
                      THEN [r EXCEPT !.pc = "reduce_load", !.i = r.i + 1, !.snap = NoRows]
                      ELSE Done(r, TRUE, "Order received successfully!")]
        /\ UNCHANGED <<sbOn, whatsapp>>

\* the worker is free for the next request
checkout_finish(p) ==
    /\ proc[p].pc = "done"
    /\ proc' = [proc EXCEPT ![p] = Idle]
    /\ UNCHANGED <<sbOn, sbTable, dataFile, whatsapp>>

(***************************************************************************)
(* store.py: the admin's product functions (add_product and update_product *)
(* as called by admin_add_product and admin_edit_product for a logged-in   *)
(* admin).  qs is the 'quantity' form field, "None" when it is not sent.   *)
(***************************************************************************)
QuantityFields == {"None", "", "0", "-1", "1", "2", "abc"}

\* whether int(qs) raises ValueError
IntRaises(qs) == qs = "abc"

\* int(quantity) if quantity else 0
quantity_of(qs) ==
    CASE qs = "" -> 0 [] qs = "0" -> 0 [] qs = "-1" -> 0 - 1
      [] qs = "1" -> 1 [] qs = "2" -> 2 [] OTHER -> 0

\* add_product(name, price, description, image_url, category, quantity)
add_product(qs, insOK, selOK, upOK) ==
    LET l    == load_products(dataFile, sbTable, selOK, upOK)
        rows == [x \in (DOMAIN l.rows) \cup {NewPid} |->
                    IF x = NewPid THEN quantity_of(qs) ELSE l.rows[x]]
        w    == save_products(rows, l.file, l.table, upOK)
    IN  /\ qs # "None"
        /\ NewPid \notin (DOMAIN sbTable) \cup (DOMAIN dataFile.rows)
        /\ IF IntRaises(qs) THEN UNCHANGED <<sbTable, dataFile>>
           ELSE IF sbOn /\ insOK
           THEN /\ sbTable' = [x \in (DOMAIN sbTable) \cup {NewPid} |->
                                 IF x = NewPid THEN quantity_of(qs) ELSE sbTable[x]]
                /\ UNCHANGED dataFile
           ELSE /\ dataFile' = w.file
                /\ sbTable' = w.table
        /\ UNCHANGED <<sbOn, whatsapp, proc>>

\* update_product(pid, name, price, description, image_url, category, quantity)
update_product(pid, qs, selOK, upOK, updOK) ==
    LET l    == load_products(dataFile, sbTable, selOK, upOK)
        rows == IF pid \in DOMAIN l.rows /\ qs # "None" /\ ~IntRaises(qs)
                THEN [l.rows EXCEPT ![pid] = quantity_of(qs)] ELSE l.rows
        w    == save_products(rows, l.file, l.table, upOK)
    IN  /\ IF pid \notin DOMAIN l.rows \/ (qs # "None" /\ IntRaises(qs))
           THEN /\ dataFile' = l.file
                /\ sbTable' = l.table
           ELSE /\ dataFile' = w.file
                /\ sbTable' = update_quantity(w.table, pid, rows[pid], updOK)
        /\ UNCHANGED <<sbOn, whatsapp, proc>>

(***************************************************************************)
(* supabase_helpers.py: the menu_items table, the products cache and the   *)
(* quantity helpers.  A row keeps its quantity column only: null is a      *)
(* quantity that was never set (create_item leaves the column out of the   *)
(* insert when no quantity is given).                                      *)
(***************************************************************************)
QRow(q) == [null |-> FALSE, quantity |-> q]

NullRow == [null |-> TRUE, quantity |-> 0]

NoItems == [i \in {} |-> NullRow]

\* _products_cache = None
NoCache == [loaded |-> FALSE, rows |-> <<>>]

\* products_cache.json does not exist
NoFile == [exists |-> FALSE, rows |-> <<>>]

\* what a helper returned
HRes(op, ok, id, arg) == [op |-> op, ok |-> ok, id |-> id, arg |-> arg]

\* `if _products_cache:` : the cache is neither None nor an empty list
Truthy(c) == c.loaded /\ c.rows # <<>>

\* select ... from menu_items order by created_at desc: the rows, the newest
\* (highest serial id) first
RECURSIVE RowsFrom(_, _)
RowsFrom(t, n) ==
    IF n = 0 THEN <<>>
    ELSE IF n \in DOMAIN t
         THEN <<[id |-> n, null |-> t[n].null, quantity |-> t[n].quantity]>>
              \o RowsFrom(t, n - 1)
         ELSE RowsFrom(t, n - 1)

select_items(t) == RowsFrom(t, MaxItemId + 1)

\* the products part of _save_json_cache: the file is written from a
\* non-empty cache only
save_products_cache(c, f) ==
    IF Truthy(c) THEN [exists |-> TRUE, rows |-> c.rows] ELSE f

\* a row of menu_categories as the selects return it (id, name)
CatName(i) == IF i = 1 THEN "Drinks" ELSE IF i = 2 THEN "Food" ELSE "Snacks"

CatRow(i) == [id |-> i, name |-> CatName(i)]

\* the default category the helpers fall back to
DefaultAll == [id |-> 1, name |-> "All"]

\* select id,name,created_at from menu_categories order by name
RECURSIVE CatRowsFrom(_, _)
CatRowsFrom(t, n) ==
    IF n > MaxCatId + 1 THEN <<>>
    ELSE IF n \in t THEN <<CatRow(n)>> \o CatRowsFrom(t, n + 1)
         ELSE CatRowsFrom(t, n + 1)

select_categories(t) == CatRowsFrom(t, 1)

\* _save_json_cache(): each file is written from its cache when the cache
\* is non-empty
save_json_cache(pc, cc) ==
    /\ products_file' = save_products_cache(pc, products_file)
    /\ categories_file' = IF Truthy(cc) THEN [exists |-> TRUE, rows |-> cc.rows]
                          ELSE categories_file

\* the positions of the entries a cache holds for an id
EntriesIn(c, id) == {i \in 1 .. Len(c.rows) : c.rows[i].id = id}

\* the cache loop of set_item_quantity and change_item_quantity: the first
\* entry with this id gets the quantity
cache_set_quantity(c, item_id, q) ==
    IF Truthy(c) /\ \E i \in 1 .. Len(c.rows) : c.rows[i].id = item_id
    THEN LET i == CHOOSE j \in 1 .. Len(c.rows) :
                     /\ c.rows[j].id = item_id
                     /\ \A k \in 1 .. (j - 1) : c.rows[k].id # item_id
         IN  [c EXCEPT !.rows[i] = [id |-> item_id, null |-> FALSE, quantity |-> q]]
    ELSE c

\* list_items(): the cache when it is non-empty, else the table, which then
\* becomes the cache (the JSON file is not written); [] when the select fails
list_items(selOK) ==
    /\ IF Truthy(products_cache) \/ ~selOK
       THEN UNCHANGED products_cache
       ELSE products_cache' = [loaded |-> TRUE, rows |-> select_items(menu_items)]
    /\ hres' = HRes("list_items", Truthy(products_cache) \/ selOK, 0, 0)
    /\ UNCHANGED <<menu_items, products_file, catVars>>

\* refresh_cache_from_supabase(): selOK is the outcome of the selects (the
\* products select with its fallback, and the categories select)
refresh_cache_from_supabase(selOK) ==
    /\ IF selOK
       THEN LET c == [loaded |-> TRUE, rows |-> select_items(menu_items)]
                supabase_categories == select_categories(menu_categories)
                cc == [loaded |-> TRUE,
                       rows |-> IF supabase_categories = <<>> THEN <<DefaultAll>>
                                ELSE supabase_categories]
            IN  /\ products_cache' = c
                /\ categories_cache' = cc
                /\ save_json_cache(c, cc)
       ELSE UNCHANGED <<products_cache, products_file, categories_cache, categories_file>>
    /\ hres' = HRes("refresh_cache_from_supabase", selOK, 0, 0)
    /\ UNCHANGED <<menu_items, menu_categories>>

\* set_item_quantity(item_id, quantity): updOK is FALSE when the update
\* raises; an update that matches no row returns no data
set_item_quantity(item_id, quantity, updOK) ==
    IF updOK /\ item_id \in DOMAIN menu_items
    THEN LET c == cache_set_quantity(products_cache, item_id, quantity)
         IN  /\ menu_items' = [menu_items EXCEPT ![item_id] = QRow(quantity)]
             /\ products_cache' = c
             /\ save_json_cache(c, categories_cache)
             /\ UNCHANGED <<menu_categories, categories_cache>>
             /\ hres' = HRes("set_item_quantity", TRUE, item_id, quantity)
    ELSE /\ hres' = HRes("set_item_quantity", FALSE, item_id, quantity)
         /\ UNCHANGED <<menu_items, products_cache, products_file, catVars>>

\* change_item_quantity with the current quantity taken from the cache
change_item_quantity_from_cache(item_id, delta, selOK, updOK) ==
    LET hit == {i \in 1 .. Len(products_cache.rows) :
                    products_cache.rows[i].id = item_id}
        cur == IF hit = {} THEN 0
               ELSE products_cache.rows[CHOOSE i \in hit : TRUE].quantity
        new_quantity == Max(0, cur + delta)
        c == cache_set_quantity(products_cache, item_id, new_quantity)
    IN  IF selOK /\ updOK /\ item_id \in DOMAIN menu_items
        THEN /\ menu_items' = [menu_items EXCEPT ![item_id] = QRow(new_quantity)]
             /\ products_cache' = c
             /\ save_json_cache(c, categories_cache)
             /\ UNCHANGED <<menu_categories, categories_cache>>
             /\ hres' = HRes("change_item_quantity", TRUE, item_id, delta)
        ELSE /\ hres' = HRes("change_item_quantity", FALSE, item_id, delta)
             /\ UNCHANGED <<menu_items, products_cache, products_file, catVars>>

\* change_item_quantity(item_id, delta): selOK is FALSE when the select of
\* the quantity raises, updOK is FALSE when the update raises or returns no
\* data.  The select finds no row, or a null quantity (int(None) raises):
\* False before anything is written.
change_item_quantity(item_id, delta, selOK, updOK) ==
    LET found == item_id \in DOMAIN menu_items
        current_quantity == menu_items[item_id].quantity
        new_quantity == Max(0, current_quantity + delta)
        c == cache_set_quantity(products_cache, item_id, new_quantity)
    IN  IF selOK /\ found /\ ~menu_items[item_id].null /\ updOK
        THEN /\ menu_items' = [menu_items EXCEPT ![item_id] = QRow(new_quantity)]
             /\ products_cache' = c
             /\ save_json_cache(c, categories_cache)
             /\ UNCHANGED <<menu_categories, categories_cache>>
             /\ hres' = HRes("change_item_quantity", TRUE, item_id, delta)
        ELSE /\ hres' = HRes("change_item_quantity", FALSE, item_id, delta)
             /\ UNCHANGED <<menu_items, products_cache, products_file, catVars>>

\* initialize_cache_from_supabase(): the selects fill two local variables,
\* then _save_json_cache() writes the files from the caches as they are;
\* neither cache is assigned
initialize_cache_from_supabase(selOK) ==
    /\ IF selOK
       THEN save_json_cache(products_cache, categories_cache)
       ELSE UNCHANGED <<products_file, categories_file>>
    /\ hres' = HRes("initialize_cache_from_supabase", selOK, 0, 0)
    /\ UNCHANGED <<menu_items, products_cache, menu_categories, categories_cache>>

\* list_categories(): the cache when it is non-empty, else the table, which
\* then becomes the cache; the default list, uncached, when the select fails
list_categories(selOK) ==
    /\ IF Truthy(categories_cache) \/ ~selOK
       THEN UNCHANGED categories_cache
       ELSE categories_cache' = [loaded |-> TRUE, rows |-> select_categories(menu_categories)]
    /\ hres' = HRes("list_categories", TRUE, 0, 0)
    /\ UNCHANGED <<menu_items, products_cache, products_file, menu_categories, categories_file>>

\* the id the serial column of menu_items gives the next row
next_item_id(t) == IF DOMAIN t = {} THEN 1
                   ELSE (CHOOSE m \in DOMAIN t : \A i \in DOMAIN t : i <= m) + 1

\* what a call that raised left behind: no return value
Raised(op, id, name) == [op |-> op, ok |-> FALSE, id |-> id, arg |-> 0, name |-> name]

\* create_item(category_id, name, ..., quantity): a blank name raises
\* ValueError at once.  Otherwise the row is inserted (insOK), without the
\* quantity column when no quantity is given (hasQty FALSE); then
\* `if _products_cache:` reads a name that the assignments of lines 364 and
\* 366 make local to the function (there is no global statement) and raises
\* UnboundLocalError: nothing is added to the cache and nothing is returned.
create_item(name, hasQty, quantity, insOK) ==
    LET id == next_item_id(menu_items)
    IN  /\ IF name # "" /\ insOK
           THEN /\ menu_items' = [i \in DOMAIN menu_items \cup {id} |->
                                    IF i = id THEN (IF hasQty THEN QRow(quantity) ELSE NullRow)
                                    ELSE menu_items[i]]
                /\ hres' = Raised("create_item", id, name)
           ELSE /\ UNCHANGED menu_items
                /\ hres' = Raised("create_item", 0, name)
        /\ UNCHANGED <<products_cache, products_file, catVars>>

\* delete_item(item_id): the row is deleted from the table (delOK; an
\* exception is printed only); then `if _products_cache:` reads a name that
\* the assignment of line 450 makes local and raises UnboundLocalError: the
\* cache keeps the entry and nothing is returned.
delete_item(item_id, delOK) ==
    /\ menu_items' = IF delOK THEN [i \in DOMAIN menu_items \ {item_id} |-> menu_items[i]]
                     ELSE menu_items
    /\ hres' = Raised("delete_item", item_id, "")
    /\ UNCHANGED <<products_cache, products_file, catVars>>

\* delete_category(category_id): `if _categories_cache:` reads a name that
\* the assignment of line 242 makes local and raises UnboundLocalError
\* before anything is done
delete_category(category_id) ==
    /\ hres' = Raised("delete_category", category_id, "")
    /\ UNCHANGED <<menu_items, products_cache, products_file, catVars>>

\* get_item(item_id) in a state: the first cache entry of the id, else the
\* row of the table (selOK), else None
get_item(c, t, item_id, selOK) ==
    IF Truthy(c) /\ EntriesIn(c, item_id) # {}
    THEN [found |-> TRUE, id |-> item_id]
    ELSE IF selOK /\ item_id \in DOMAIN t THEN [found |-> TRUE, id |-> item_id]
         ELSE [found |-> FALSE, id |-> 0]

\* another client of the same Supabase project inserts or deletes a row of
\* menu_categories
menu_categories_written_elsewhere(category_id, present) ==
    /\ menu_categories' = IF present THEN menu_categories \cup {category_id}
                          ELSE menu_categories \ {category_id}
    /\ hres' = HRes("elsewhere", TRUE, category_id, 0)
    /\ UNCHANGED <<menu_items, products_cache, products_file, categories_cache, categories_file>>

\* a worker that is not inside change_item_quantity
NotCalled == [pc |-> "idle", item_id |-> 0, delta |-> 0, current_quantity |-> 0, ok |-> FALSE]

\* change_item_quantity(item_id, delta) is entered by worker w
change_called(w, item_id, delta) ==
    /\ hproc[w].pc = "idle"
    /\ hproc' = [hproc EXCEPT ![w] = [NotCalled EXCEPT !.pc = "select",
                                        !.item_id = item_id, !.delta = delta]]
    /\ UNCHANGED <<menu_items, products_cache, products_file, hres, catVars>>

\* the select of change_item_quantity, one request to Supabase: False when
\* it raises, finds no row or finds a null quantity
change_select(w, selOK) ==
    LET r == hproc[w]
    IN  /\ r.pc = "select"
        /\ IF selOK /\ r.item_id \in DOMAIN menu_items /\ ~menu_items[r.item_id].null
           THEN hproc' = [hproc EXCEPT ![w] = [r EXCEPT !.pc = "update",
                               !.current_quantity = menu_items[r.item_id].quantity]]
           ELSE hproc' = [hproc EXCEPT ![w] = [r EXCEPT !.pc = "done", !.ok = FALSE]]
        /\ UNCHANGED <<menu_items, products_cache, products_file, hres, catVars>>

\* the update of change_item_quantity, a second request to Supabase, with
\* the quantity computed from what the select returned, then the cache loop
\* and _save_json_cache
change_update(w, updOK) ==
    LET r == hproc[w]
        new_quantity == Max(0, r.current_quantity + r.delta)
        c == cache_set_quantity(products_cache, r.item_id, new_quantity)
    IN  /\ r.pc = "update"
        /\ IF updOK /\ r.item_id \in DOMAIN menu_items
           THEN /\ menu_items' = [menu_items EXCEPT ![r.item_id] = QRow(new_quantity)]
                /\ products_cache' = c
                /\ save_json_cache(c, categories_cache)
                /\ UNCHANGED <<menu_categories, categories_cache>>
                /\ hproc' = [hproc EXCEPT ![w] = [r EXCEPT !.pc = "done", !.ok = TRUE]]
           ELSE /\ hproc' = [hproc EXCEPT ![w] = [r EXCEPT !.pc = "done", !.ok = FALSE]]
                /\ UNCHANGED <<menu_items, products_cache, products_file, catVars>>
        /\ UNCHANGED hres

\* another client of the same Supabase project (a second worker process, the
\* Supabase dashboard) inserts, rewrites or deletes a row of menu_items
menu_items_written_elsewhere(item_id, row, present) ==
    /\ menu_items' = [i \in (IF present THEN DOMAIN menu_items \cup {item_id}
                                       ELSE DOMAIN menu_items \ {item_id}) |->
                         IF i = item_id THEN row ELSE menu_items[i]]
    /\ hres' = HRes("elsewhere", TRUE, item_id, 0)
    /\ UNCHANGED <<products_cache, products_file, catVars>>

\* supabase_helpers.py: the module just imported: no cache, no cache file,
\* an empty table
HelpersInitial ==
    /\ menu_items = NoItems
    /\ products_cache = NoCache
    /\ products_file = NoFile
    /\ hres = HRes("init", TRUE, 0, 0)
    /\ hproc = [w \in Workers |-> NotCalled]
    /\ menu_categories = {}
    /\ categories_cache = NoCache
    /\ categories_file = NoFile

(***************************************************************************)
(* store.py: the settings.  load_settings starts from DEFAULT_SETTINGS,    *)
(* takes logo_url and whatsapp_phone from the Supabase table site_settings *)
(* when they are set there, and every other key, and those two when        *)
(* Supabase gave none, from settings.json.  welcome_title and              *)
(* welcome_subtitle are handled as brand_name is and are left out.         *)
(***************************************************************************)
\* os.getenv("ADMIN_PASSWORD", "admin123")
DefaultPassword == "admin123"

\* master = "@admin592" of admin_settings
MasterPassword == "@admin592"

DEFAULT_SETTINGS ==
    [brand_name |-> "S.B Shop", logo_url |-> "", admin_password |-> DefaultPassword,
     whatsapp_phone |-> ""]

NoSettingsFile == [exists |-> FALSE, keys |-> DEFAULT_SETTINGS]

NoSiteSettings == [logo_url |-> "", whatsapp_phone |-> ""]

\* get_site_setting(key): None (here "") without credentials or when the
\* select raises
get_site_setting(site, key, getOK) == IF sbOn /\ getOK THEN site[key] ELSE ""

load_settings(file, site, logoOK, phoneOK) ==
    LET logo  == get_site_setting(site, "logo_url", logoOK)
        phone == get_site_setting(site, "whatsapp_phone", phoneOK)
    IN  IF file.exists
        THEN [brand_name     |-> file.keys.brand_name,
              admin_password |-> file.keys.admin_password,
              logo_url       |-> IF logo = "" THEN file.keys.logo_url ELSE logo,
              whatsapp_phone |-> IF phone = "" THEN file.keys.whatsapp_phone ELSE phone]
        ELSE [DEFAULT_SETTINGS EXCEPT !.logo_url = logo, !.whatsapp_phone = phone]

\* save_settings(settings): wrOK is FALSE when writing settings.json raises
save_settings(settings, file, wrOK) ==
    IF wrOK THEN [exists |-> TRUE, keys |-> settings] ELSE file

\* set_site_setting(key, value), its exception swallowed by the caller
set_site_setting(site, key, value, setOK) ==
    IF sbOn /\ setOK THEN [site EXCEPT ![key] = value] ELSE site

\* the whatsapp_phone the checkout reads is non-empty
whatsapp_set(file, site) == load_settings(file, site, TRUE, TRUE).whatsapp_phone # ""

\* the answer of an admin request: login is TRUE when it is the redirect to
\* the login page, rejected when a settings form is turned down; pw is the
\* password a login form carried
SResp(op, sid, login, rejected, pw) ==
    [op |-> op, sid |-> sid, login |-> login, rejected |-> rejected, pw |-> pw]

\* check_admin()
check_admin(s) == is_admin[s]

\* admin_login, POST with the form field pw
admin_login(s, pw) ==
    /\ is_admin' = IF pw # "" /\ pw = load_settings(settingsFile, siteSettings, TRUE, TRUE).admin_password
                   THEN [is_admin EXCEPT ![s] = TRUE] ELSE is_admin
    /\ slast' = SResp("admin_login", s, FALSE, FALSE, pw)
    /\ UNCHANGED <<settingsFile, siteSettings, catFile, catTable>>
    /\ UNCHANGED storeVars

\* admin_logout
admin_logout(s) ==
    /\ is_admin' = [is_admin EXCEPT ![s] = FALSE]
    /\ slast' = SResp("admin_logout", s, FALSE, FALSE, "")
    /\ UNCHANGED <<settingsFile, siteSettings, catFile, catTable>>
    /\ UNCHANGED storeVars

\* `if not check_admin(): return redirect(url_for("store.admin_login", ...))`
login_required(op, s) ==
    /\ slast' = SResp(op, s, TRUE, FALSE, "")
    /\ UNCHANGED <<is_admin, settingsFile, siteSettings, catFile, catTable>>
    /\ UNCHANGED storeVars

\* re.match(r'^\+[1-9]\d{1,14}$', whatsapp_phone) on the phones of the model
PhoneMatches(phone) == phone = "+5926001234"

\* the extensions admin_settings takes for a logo, on the files of the model
LogoExtOK(filename) == filename = "logo.png"

\* the public URL upload_logo_to_supabase returns
CloudLogo == "cloud/logo.png"

\* the settings form
SettingsForms ==
    [brand_name : {"S.B Shop", "Shop"}, logo_file : {"", "logo.png", "logo.exe"},
     logo_url : {"", "/logo.png"}, whatsapp_phone : {"", "+5926001234", "6001234"},
     current_password : {"", DefaultPassword, MasterPassword},
     new_password : {"", "secret2"}, confirm_password : {"", "secret2"}]

\* admin_settings, POST with form f.  upOK, setLogoOK, setPhoneOK, wrOK: the
\* logo upload, the two set_site_setting calls and the write of
\* settings.json succeed.
admin_settings_post(s, f, upOK, setLogoOK, setPhoneOK, wrOK) ==
    LET st0 == load_settings(settingsFile, siteSettings, TRUE, TRUE)
        st1 == [st0 EXCEPT !.brand_name = f.brand_name]
        uploaded == f.logo_file # "" /\ LogoExtOK(f.logo_file) /\ sbOn /\ upOK
        st2 == IF f.logo_file # ""
               THEN (IF uploaded THEN [st1 EXCEPT !.logo_url = CloudLogo] ELSE st1)
               ELSE [st1 EXCEPT !.logo_url = f.logo_url]
        site1 == IF uploaded
                 THEN set_site_setting(siteSettings, "logo_url", CloudLogo, setLogoOK)
                 ELSE siteSettings
        phoneBad == f.whatsapp_phone # "" /\ ~PhoneMatches(f.whatsapp_phone)
        st3 == [st2 EXCEPT !.whatsapp_phone = f.whatsapp_phone]
        site2 == IF phoneBad THEN site1
                 ELSE set_site_setting(site1, "whatsapp_phone", f.whatsapp_phone, setPhoneOK)
        pwKnown == /\ f.current_password # ""
                   /\ \/ f.current_password = st3.admin_password
                      \/ f.current_password = MasterPassword
        pwBad == f.new_password # "" /\ ~(pwKnown /\ f.new_password = f.confirm_password)
        st4 == IF f.new_password # "" THEN [st3 EXCEPT !.admin_password = f.new_password]
               ELSE st3
    IN  IF ~check_admin(s) THEN login_required("admin_settings", s)
        ELSE /\ siteSettings' = site2
             /\ settingsFile' = IF phoneBad \/ pwBad THEN settingsFile
                                ELSE save_settings(st4, settingsFile, wrOK)
             /\ slast' = SResp("admin_settings", s, FALSE, phoneBad \/ pwBad, "")
             /\ whatsapp' = whatsapp_set(settingsFile', siteSettings')
             /\ UNCHANGED <<is_admin, catFile, catTable, sbOn, sbTable, dataFile, proc>>

\* admin_settings, GET: the form is rendered from load_settings()
admin_settings_get(s) ==
    IF ~check_admin(s) THEN login_required("admin_settings", s)
    ELSE /\ slast' = SResp("admin_settings", s, FALSE, FALSE, "")
         /\ UNCHANGED <<is_admin, settingsFile, siteSettings, catFile, catTable>>
         /\ UNCHANGED storeVars

(***************************************************************************)
(* store.py: the categories.  A name and a slug are sequences of           *)
(* characters.  load_categories reads the Supabase table when a client is  *)
(* configured and the select succeeds, else categories.json, which it      *)
(* creates with the category 'All' when missing.  The upsert of a category *)
(* replaces the row of the same slug.  selOK, insOK, delOK, upOK say       *)
(* whether the select, the insert, the delete and the upserts of one call  *)
(* succeed.                                                                *)
(***************************************************************************)
\* str.lower() on the characters of the model
LowerChar(ch) == IF ch = "A" THEN "a" ELSE IF ch = "T" THEN "t" ELSE ch

\* name.strip()
RECURSIVE lstrip(_)
lstrip(name) ==
    IF name # <<>> /\ Head(name) = " " THEN lstrip(Tail(name)) ELSE name

RECURSIVE rstrip(_)
rstrip(name) ==
    IF name # <<>> /\ name[Len(name)] = " "
    THEN rstrip(SubSeq(name, 1, Len(name) - 1)) ELSE name

strip(name) == rstrip(lstrip(name))

\* name.lower().replace(' ', '-').replace('/', '-')
slug_of(name) ==
    [i \in 1 .. Len(name) |->
        IF LowerChar(name[i]) \in {" ", "/"} THEN "-" ELSE LowerChar(name[i])]

Category(name, slug) == [name |-> name, slug |-> slug]

\* {"name": "All", "slug": "all"}
DefaultCategory == Category(<<"A", "l", "l">>, <<"a", "l", "l">>)

NoCatFile == [exists |-> FALSE, rows |-> <<>>]

\* the slugs of a list of categories
Slugs(cats) == {cats[i].slug : i \in 1 .. Len(cats)}

\* the rows of the table as the list a select returns
RECURSIVE RowList(_)
RowList(table) ==
    IF table = {} THEN <<>>
    ELSE LET r == CHOOSE x \in table : TRUE
         IN  <<r>> \o RowList(table \ {r})

\* table.upsert(c)
upsert_category(table, c) == {r \in table : r.slug # c.slug} \cup {c}

\* the loop of save_categories: every category with a name and a slug
RECURSIVE upsert_categories(_, _)
upsert_categories(table, cats) ==
    IF cats = <<>> THEN table
    ELSE LET c == Head(cats)
         IN  upsert_categories(IF c.slug = <<>> \/ c.name = <<>> THEN table
                               ELSE upsert_category(table, c), Tail(cats))

save_categories(cats, file, table, upOK) ==
    [file  |-> [exists |-> TRUE, rows |-> cats],
     table |-> IF sbOn /\ upOK THEN upsert_categories(table, cats) ELSE table]

load_categories(file, table, selOK, upOK) ==
    IF sbOn /\ selOK
    THEN IF table = {}
         THEN [cats |-> <<DefaultCategory>>, file |-> file,
               table |-> IF upOK THEN {DefaultCategory} ELSE table]
         ELSE [cats |-> RowList(table), file |-> file, table |-> table]
    ELSE IF file.exists
    THEN [cats |-> IF file.rows = <<>> THEN <<DefaultCategory>> ELSE file.rows,
          file |-> file, table |-> table]
    ELSE LET w == save_categories(<<DefaultCategory>>, file, table, upOK)
         IN  [cats |-> <<DefaultCategory>>, file |-> w.file, table |-> w.table]

\* the categories load_categories() returns when its select succeeds
CategoryView(file, table) == load_categories(file, table, TRUE, TRUE).cats

\* add_category(name) after the remote path did not return: the local
\* fallback
add_category_local(name, slug, file, table, lselOK, upOK) ==
    LET l    == load_categories(file, table, lselOK, upOK)
        cats == Append(l.cats, Category(name, slug))
        w    == save_categories(cats, l.file, l.table, upOK)
    IN  IF slug \in Slugs(l.cats)
        THEN [ok |-> FALSE, message |-> "Category already exists",
              file |-> l.file, table |-> l.table]
        ELSE [ok |-> TRUE, message |-> "", file |-> w.file, table |-> w.table]

\* add_category(name): what it returns, and the file and the table after it
add_category(raw, file, table, selOK, insOK, lselOK, upOK) ==
    LET name == strip(raw)
        slug == slug_of(name)
        row  == Category(name, slug)
        inserted == table \cup {row}
        l    == load_categories(file, inserted, lselOK, upOK)
        w    == save_categories(Append(l.cats, row), l.file, l.table, upOK)
    IN  IF name = <<>>
        THEN [ok |-> FALSE, message |-> "Category name required",
              file |-> file, table |-> table]
        ELSE IF sbOn /\ selOK /\ \E r \in table : r.slug = slug
        THEN [ok |-> FALSE, message |-> "Category already exists",
              file |-> file, table |-> table]
        ELSE IF sbOn /\ selOK /\ insOK
        THEN IF slug \in Slugs(l.cats)
             THEN [ok |-> TRUE, message |-> "", file |-> l.file, table |-> l.table]
             ELSE [ok |-> TRUE, message |-> "", file |-> w.file, table |-> w.table]
        ELSE add_category_local(name, slug, file, table, lselOK, upOK)

\* the list with the categories of a slug taken out
RECURSIVE without_slug(_, _)
without_slug(cats, slug) ==
    IF cats = <<>> THEN <<>>
    ELSE IF Head(cats).slug = slug THEN without_slug(Tail(cats), slug)
         ELSE <<Head(cats)>> \o without_slug(Tail(cats), slug)

\* delete_category(slug), the categories part: the file and the table after it
delete_category_cats(slug, file, table, delOK, lselOK, upOK) ==
    LET deleted == IF sbOn /\ delOK THEN {r \in table : r.slug # slug} ELSE table
        l       == load_categories(file, deleted, lselOK, upOK)
    IN  save_categories(without_slug(l.cats, slug), l.file, l.table, upOK)

\* the names an add_category call carries: empty, blank, 'All' in two
\* spellings, and three names of the slugs t and t-a
CategoryNames ==
    {<<>>, <<" ">>, <<"A", "l", "l">>, <<"a", "l", "l">>, <<"T">>, <<"t", " ">>,
     <<"T", " ", "a">>, <<"t", "/", "a">>}

\* the slugs a delete_category call carries
CategorySlugs == {<<"a", "l", "l">>, <<"t">>, <<"t", "-", "a">>}

(***************************************************************************)
(* store.py: the admin routes.  Each starts with the check_admin gate.     *)
(* The image upload of the product forms stores no product and is left     *)
(* out, but for the early return of admin_add_product on a file that is    *)
(* not an image (badImage).  named says the form carries a product name.   *)
(***************************************************************************)
\* admin(): the dashboard lists load_products() and load_categories()
admin(s, selOK, upOK, cselOK, cupOK) ==
    LET l  == load_products(dataFile, sbTable, selOK, upOK)
        lc == load_categories(catFile, catTable, cselOK, cupOK)
    IN  IF ~check_admin(s) THEN login_required("admin", s)
        ELSE /\ dataFile' = l.file
             /\ sbTable' = l.table
             /\ catFile' = lc.file
             /\ catTable' = lc.table
             /\ slast' = SResp("admin", s, FALSE, FALSE, "")
             /\ UNCHANGED <<is_admin, settingsFile, siteSettings, sbOn, whatsapp, proc>>

\* admin_add_product without the gate
admin_add_product_ungated(s, named, badImage, qs, insOK, selOK, upOK) ==
    IF (sbOn /\ badImage) \/ ~named
    THEN /\ slast' = SResp("admin_add_product", s, FALSE, TRUE, "")
         /\ UNCHANGED <<is_admin, settingsFile, siteSettings, catFile, catTable>>
         /\ UNCHANGED storeVars
    ELSE /\ add_product(qs, insOK, selOK, upOK)
         /\ slast' = SResp("admin_add_product", s, FALSE, FALSE, "")
         /\ UNCHANGED <<is_admin, settingsFile, siteSettings, catFile, catTable>>

\* admin_add_product, POST
admin_add_product(s, named, badImage, qs, insOK, selOK, upOK) ==
    IF ~check_admin(s) THEN login_required("admin_add_product", s)
    ELSE IF (sbOn /\ badImage) \/ ~named
    THEN /\ slast' = SResp("admin_add_product", s, FALSE, TRUE, "")
         /\ UNCHANGED <<is_admin, settingsFile, siteSettings, catFile, catTable>>
         /\ UNCHANGED storeVars
    ELSE /\ add_product(qs, insOK, selOK, upOK)
         /\ slast' = SResp("admin_add_product", s, FALSE, FALSE, "")
         /\ UNCHANGED <<is_admin, settingsFile, siteSettings, catFile, catTable>>

\* admin_edit_product, GET or POST.  The load_products of the route and the
\* one of update_product meet the same outcome of the select.
admin_edit_product(s, method, pid, named, qs, selOK, upOK, updOK, cselOK, cupOK) ==
    LET l  == load_products(dataFile, sbTable, selOK, upOK)
        lc == load_categories(catFile, catTable, cselOK, cupOK)
    IN  IF ~check_admin(s) THEN login_required("admin_edit_product", s)
        ELSE IF pid \notin DOMAIN l.rows
        THEN /\ dataFile' = l.file
             /\ sbTable' = l.table
             /\ slast' = SResp("admin_edit_product", s, FALSE, TRUE, "")
             /\ UNCHANGED <<is_admin, settingsFile, siteSettings, catFile, catTable,
                            sbOn, whatsapp, proc>>
        ELSE IF method = "GET" \/ ~named
        THEN /\ dataFile' = l.file
             /\ sbTable' = l.table
             /\ catFile' = lc.file
             /\ catTable' = lc.table
             /\ slast' = SResp("admin_edit_product", s, FALSE, method = "POST", "")
             /\ UNCHANGED <<is_admin, settingsFile, siteSettings, sbOn, whatsapp, proc>>
        ELSE /\ update_product(pid, qs, selOK, upOK, updOK)
             /\ slast' = SResp("admin_edit_product", s, FALSE, FALSE, "")
             /\ UNCHANGED <<is_admin, settingsFile, siteSettings, catFile, catTable>>

\* admin_delete_product, POST
admin_delete_product(s, pid, delOK, selOK, upOK) ==
    IF ~check_admin(s) THEN login_required("admin_delete_product", s)
    ELSE /\ delete_product(pid, delOK, selOK, upOK)
         /\ slast' = SResp("admin_delete_product", s, FALSE, FALSE, "")
         /\ UNCHANGED <<is_admin, settingsFile, siteSettings, catFile, catTable>>

\* admin_categories: POST adds the category of the form field name, GET
\* lists load_categories()
admin_categories(s, method, raw, selOK, insOK, lselOK, upOK) ==
    LET a  == add_category(raw, catFile, catTable, selOK, insOK, lselOK, upOK)
        lc == load_categories(catFile, catTable, lselOK, upOK)
    IN  IF ~check_admin(s) THEN login_required("admin_categories", s)
        ELSE /\ catFile' = IF method = "POST" THEN a.file ELSE lc.file
             /\ catTable' = IF method = "POST" THEN a.table ELSE lc.table
             /\ slast' = SResp("admin_categories", s, FALSE, method = "POST" /\ ~a.ok, "")
             /\ UNCHANGED <<is_admin, settingsFile, siteSettings>>
             /\ UNCHANGED storeVars

\* admin_delete_category, POST: delete_category(slug); changed says that a
\* product of the category was found, so that the products are saved
admin_delete_category(s, slug, delOK, lselOK, cupOK, changed, selOK, upOK) ==
    LET w  == delete_category_cats(slug, catFile, catTable, delOK, lselOK, cupOK)
        l  == load_products(dataFile, sbTable, selOK, upOK)
        wp == save_products(l.rows, l.file, l.table, upOK)
    IN  IF ~check_admin(s) THEN login_required("admin_delete_category", s)
        ELSE /\ catFile' = w.file
             /\ catTable' = w.table
             /\ dataFile' = IF changed THEN wp.file ELSE l.file
             /\ sbTable' = IF changed THEN wp.table ELSE l.table
             /\ slast' = SResp("admin_delete_category", s, FALSE, FALSE, "")
             /\ UNCHANGED <<is_admin, settingsFile, siteSettings, sbOn, whatsapp, proc>>

\* admin_category_add_existing, POST with the form field product_id ("" when
\* it is not sent): the product gets the category and the products are saved
admin_category_add_existing(s, pid, selOK, upOK) ==
    LET l  == load_products(dataFile, sbTable, selOK, upOK)
        wp == save_products(l.rows, l.file, l.table, upOK)
    IN  IF ~check_admin(s) THEN login_required("admin_category_add_existing", s)
        ELSE IF pid = ""
        THEN /\ slast' = SResp("admin_category_add_existing", s, FALSE, TRUE, "")
             /\ UNCHANGED <<is_admin, settingsFile, siteSettings, catFile, catTable>>
             /\ UNCHANGED storeVars
        ELSE /\ dataFile' = IF pid \in DOMAIN l.rows THEN wp.file ELSE l.file
             /\ sbTable' = IF pid \in DOMAIN l.rows THEN wp.table ELSE l.table
             /\ slast' = SResp("admin_category_add_existing", s, FALSE,
                               pid \notin DOMAIN l.rows, "")
             /\ UNCHANGED <<is_admin, settingsFile, siteSettings, catFile, catTable,
                            sbOn, whatsapp, proc>>

\* store.py: a fresh deployment: nobody logged in, no settings.json (or one
\* that holds a whatsapp_phone), no site setting, no categories.json, an
\* empty categories table
AdminInitialWith(phone) ==
    /\ is_admin = [s \in Sessions |-> FALSE]
    /\ settingsFile = IF phone = "" THEN NoSettingsFile
                      ELSE [exists |-> TRUE,
                            keys |-> [DEFAULT_SETTINGS EXCEPT !.whatsapp_phone = phone]]
    /\ siteSettings = NoSiteSettings
    /\ catFile = NoCatFile
    /\ catTable = {}
    /\ slast = SResp("init", "", FALSE, FALSE, "")

AdminInitial == AdminInitialWith("")

(***************************************************************************)
(* SpecApp: any sequence of at most MaxRequests requests, one at a time,   *)
(* within the bounds.                                                      *)
(***************************************************************************)
\* the state stays within the bounds of the model
AppBounded ==
    /\ \A s \in Sessions : \A k \in DOMAIN cart[s] : cart[s][k] <= MaxQty
    /\ Len(orders) <= MaxOrders
    /\ \A i \in DOMAIN products : i <= MaxPid

\* one more request handled
Counted == requests < MaxRequests /\ requests' = requests + 1

\* app.py: the state after create_app() (db.create_all on an empty database:
\* no product, no order) with no session cookie issued yet
AppInitial ==
    /\ products = [i \in {} |-> 0]
    /\ cart = [s \in Sessions |-> EmptyCart]
    /\ orders = <<>>
    /\ last = Resp("init", "", TRUE, "", FALSE)
    /\ okCheckouts = 0
    /\ req = NoReq

\* store.py: a fresh deployment: no products.json, an empty Supabase table,
\* no whatsapp_phone saved, every worker free
StoreInitial ==
    /\ sbTable = NoRows
    /\ dataFile = [exists |-> FALSE, rows |-> NoRows]
    /\ proc = [p \in Workers |-> Idle]

InitApp ==
    /\ AppInitial
    /\ AdminInitial
    /\ HelpersInitial
    /\ requests = 0
    /\ StoreInitial
    /\ sbOn = FALSE
    /\ whatsapp = FALSE

\* a request to app.py; SpecApp keeps no history of the inputs
AppRequest == Counted /\ UNCHANGED <<storeVars, helperVars, adminVars>> /\ UNCHANGED req

\* the history of an order request: one more ok=true answer, or not
OrderCounted == okCheckouts' = okCheckouts + (IF last'.ok THEN 1 ELSE 0)

CartAdd ==
    /\ AppRequest
    /\ \E s \in Sessions, p \in 1 .. (MaxPid + 1), q \in QtyInputs : api_cart_add(s, p, q)
    /\ AppBounded'
    /\ UNCHANGED okCheckouts
CartUpdate ==
    /\ AppRequest
    /\ \E s \in Sessions, k \in Keys, q \in QtyInputs : api_cart_update(s, k, q)
    /\ UNCHANGED okCheckouts
CartRemove ==
    /\ AppRequest
    /\ \E s \in Sessions, k \in Keys : api_cart_remove(s, k)
    /\ UNCHANGED okCheckouts
OrderPaypal ==
    /\ AppRequest
    /\ \E s \in Sessions, info \in InfoRecords, commitOK \in BOOLEAN, confirmed \in BOOLEAN :
          api_order_paypal(s, info, commitOK, confirmed)
    /\ AppBounded'
    /\ OrderCounted
OrderMmg ==
    /\ AppRequest
    /\ \E s \in Sessions, info \in InfoRecords, commitOK \in BOOLEAN :
          api_order_mmg(s, info, commitOK)
    /\ AppBounded'
    /\ OrderCounted
AdminNew ==
    /\ AppRequest
    /\ \E f \in FormInputs : admin_products_new(f.name, f.price, f.is_active)
    /\ AppBounded'
    /\ UNCHANGED okCheckouts
AdminEdit ==
    /\ AppRequest
    /\ \E p \in 1 .. MaxPid, f \in FormInputs :
          admin_products_edit(p, f.name, f.price, f.is_active)
    /\ UNCHANGED okCheckouts
AdminDelete ==
    /\ AppRequest
    /\ \E p \in 1 .. MaxPid : admin_products_delete(p)
    /\ UNCHANGED okCheckouts

NextApp ==
    \/ CartAdd
    \/ CartUpdate
    \/ CartRemove
    \/ OrderPaypal
    \/ OrderMmg
    \/ AdminNew
    \/ AdminEdit
    \/ AdminDelete

SpecApp == InitApp /\ [][NextApp]_vars

(***************************************************************************)
(* SpecCart: the cart API and the admin product CRUD of app.py, at most    *)
(* MaxCartRequests requests, with the key and qty of every cart request    *)
(* kept in req.                                                            *)
(***************************************************************************)
\* number of requests in one behaviour of SpecCart
MaxCartRequests == 5
\* number of requests in one behaviour of SpecOrder
MaxOrderRequests == 5

\* a request of SpecCart
CartRequest ==
    /\ requests < MaxCartRequests
    /\ requests' = requests + 1
    /\ UNCHANGED <<storeVars, helperVars, adminVars, okCheckouts>>

RecAdd ==
    /\ CartRequest
    /\ \E s \in Sessions, p \in 1 .. (MaxPid + 1), q \in QtyInputs :
          /\ api_cart_add(s, p, q)
          /\ req' = [key |-> StrOfInt(p), qty |-> q]
    /\ AppBounded'
RecUpdate ==
    /\ CartRequest
    /\ \E s \in Sessions, k \in Keys, q \in QtyInputs :
          /\ api_cart_update(s, k, q)
          /\ req' = [key |-> k, qty |-> q]
RecRemove ==
    /\ CartRequest
    /\ \E s \in Sessions, k \in Keys :
          /\ api_cart_remove(s, k)
          /\ req' = [key |-> k, qty |-> 0]
RecAdminNew ==
    /\ CartRequest
    /\ \E f \in FormInputs : admin_products_new(f.name, f.price, f.is_active)
    /\ AppBounded'
    /\ req' = NoReq
RecAdminEdit ==
    /\ CartRequest
    /\ \E p \in 1 .. MaxPid, f \in FormInputs :
          admin_products_edit(p, f.name, f.price, f.is_active)
    /\ req' = NoReq
RecAdminDelete ==
    /\ CartRequest
    /\ \E p \in 1 .. MaxPid :
          /\ admin_products_delete(p)
          /\ req' = [key |-> StrOfInt(p), qty |-> 0]

NextCart ==
    \/ RecAdd
    \/ RecUpdate
    \/ RecRemove
    \/ RecAdminNew
    \/ RecAdminEdit
    \/ RecAdminDelete

SpecCart == InitApp /\ [][NextCart]_vars

(***************************************************************************)
(* SpecOrder: admin_products_new, api_cart_add and the two order endpoints *)
(* of app.py, at most MaxOrderRequests requests, with the customer record  *)
(* of every order request kept in req.                                     *)
(***************************************************************************)
\* history: the customer record an order request carried
OrderReq(info) == [key |-> "", qty |-> 0, info |-> info]

OrderRequest ==
    /\ requests < MaxOrderRequests
    /\ requests' = requests + 1
    /\ UNCHANGED <<storeVars, helperVars, adminVars>>

OrdCartAdd ==
    /\ OrderRequest
    /\ \E s \in Sessions, p \in 1 .. MaxPid, q \in QtyInputs :
          /\ api_cart_add(s, p, q)
          /\ req' = [key |-> StrOfInt(p), qty |-> q]
    /\ AppBounded'
    /\ UNCHANGED okCheckouts
OrdAdminNew ==
    /\ OrderRequest
    /\ \E f \in FormInputs : admin_products_new(f.name, f.price, f.is_active)
    /\ AppBounded'
    /\ req' = NoReq
    /\ UNCHANGED okCheckouts
OrdPaypal ==
    /\ OrderRequest
    /\ \E s \in Sessions, info \in InfoRecords, commitOK \in BOOLEAN, confirmed \in BOOLEAN :
          /\ api_order_paypal(s, info, commitOK, confirmed)
          /\ req' = OrderReq(info)
    /\ AppBounded'
    /\ OrderCounted
OrdMmg ==
    /\ OrderRequest
    /\ \E s \in Sessions, info \in InfoRecords, commitOK \in BOOLEAN :
          /\ api_order_mmg(s, info, commitOK)
          /\ req' = OrderReq(info)
    /\ AppBounded'
    /\ OrderCounted

NextOrder ==
    \/ OrdCartAdd
    \/ OrdAdminNew
    \/ OrdPaypal
    \/ OrdMmg

SpecOrder == InitApp /\ [][NextOrder]_vars

(***************************************************************************)
(* SpecStore: store.py serving one request at a time (worker 1), from a    *)
(* fresh deployment with or without a Supabase client and with or without  *)
(* a whatsapp_phone.                                                       *)
(***************************************************************************)
\* lines a client puts in the payload cart
StoreQtyInputs == (0 - 1) .. 2
CartLines == [id : StorePids, qty : StoreQtyInputs]

RECURSIVE SeqsUpTo(_, _)
SeqsUpTo(S, n) ==
    IF n = 0 THEN {<<>>}
    ELSE LET shorter == SeqsUpTo(S, n - 1)
         IN  shorter \cup {Append(q, x) : q \in {t \in shorter : Len(t) = n - 1}, x \in S}

\* payload carts of at most MaxLines lines
Payloads == SeqsUpTo(CartLines, MaxLines)

StoreBounded ==
    /\ \A x \in DOMAIN sbTable : sbTable[x] <= MaxStock
    /\ \A x \in DOMAIN dataFile.rows : dataFile.rows[x] <= MaxStock

InitStore ==
    /\ AppInitial
    /\ HelpersInitial
    /\ requests = 0
    /\ StoreInitial
    /\ sbOn \in BOOLEAN
    /\ whatsapp \in BOOLEAN
    /\ AdminInitialWith(IF whatsapp THEN "+5926001234" ELSE "")

\* no request is being served
Quiet == \A p \in Workers : proc[p].pc = "idle"

StoreStep == UNCHANGED <<appVars, helperVars, adminVars, requests>> /\ StoreBounded'

\* one more request to store.py
StoreCounted == requests < MaxStoreRequests /\ requests' = requests + 1

CheckoutStart ==
    /\ Quiet
    /\ StoreCounted
    /\ \E c \in Payloads, named \in BOOLEAN : checkout_start(1, c, named)
    /\ UNCHANGED <<appVars, helperVars, adminVars>>
CheckoutCheck ==
    /\ \E selOK \in BOOLEAN, upOK \in BOOLEAN : checkout_check(1, selOK, upOK)
    /\ StoreStep
CheckoutReduceLoad ==
    /\ \E selOK \in BOOLEAN, upOK \in BOOLEAN : checkout_reduce_load(1, selOK, upOK)
    /\ StoreStep
CheckoutReduceSave ==
    /\ \E upOK \in BOOLEAN, updOK \in BOOLEAN : checkout_reduce_save(1, upOK, updOK)
    /\ StoreStep
CheckoutFinish ==
    /\ checkout_finish(1)
    /\ StoreStep
AddProduct ==
    /\ Quiet
    /\ StoreCounted
    /\ \E qs \in QuantityFields, insOK \in BOOLEAN, selOK \in BOOLEAN, upOK \in BOOLEAN :
          add_product(qs, insOK, selOK, upOK)
    /\ UNCHANGED <<appVars, helperVars, adminVars>>
UpdateProduct ==
    /\ Quiet
    /\ StoreCounted
    /\ \E pid \in StorePids, qs \in QuantityFields,
          selOK \in BOOLEAN, upOK \in BOOLEAN, updOK \in BOOLEAN :
          update_product(pid, qs, selOK, upOK, updOK)
    /\ UNCHANGED <<appVars, helperVars, adminVars>>

NextStore ==
    \/ CheckoutStart
    \/ CheckoutCheck
    \/ CheckoutReduceLoad
    \/ CheckoutReduceSave
    \/ CheckoutFinish
    \/ AddProduct
    \/ UpdateProduct

SpecStore == InitStore /\ [][NextStore]_vars

(***************************************************************************)
(* SpecStoreAdmin: any sequence of at most MaxAdminRequests calls of       *)
(* add_product, update_product and delete_product, one at a time.          *)
(***************************************************************************)
StoreAdminCall ==
    /\ requests < MaxAdminRequests
    /\ requests' = requests + 1
    /\ UNCHANGED <<products, cart, orders, last, okCheckouts, helperVars, adminVars>>

RecAddProduct ==
    /\ StoreAdminCall
    /\ \E qs \in QuantityFields, insOK \in BOOLEAN, selOK \in BOOLEAN, upOK \in BOOLEAN :
          add_product(qs, insOK, selOK, upOK)
    /\ req' = NoReq
    /\ StoreBounded'
RecUpdateProduct ==
    /\ StoreAdminCall
    /\ \E pid \in StorePids, qs \in QuantityFields,
          selOK \in BOOLEAN, upOK \in BOOLEAN, updOK \in BOOLEAN :
          update_product(pid, qs, selOK, upOK, updOK)
    /\ req' = NoReq
    /\ StoreBounded'
RecDeleteProduct ==
    /\ StoreAdminCall
    /\ \E pid \in StorePids, delOK \in BOOLEAN, selOK \in BOOLEAN, upOK \in BOOLEAN :
          /\ delete_product(pid, delOK, selOK, upOK)
          /\ req' = [key |-> pid, qty |-> 0]
    /\ StoreBounded'

NextStoreAdmin ==
    \/ RecAddProduct
    \/ RecUpdateProduct
    \/ RecDeleteProduct

SpecStoreAdmin == InitStore /\ [][NextStoreAdmin]_vars

(***************************************************************************)
(* SpecAdmin: any sequence of at most MaxRouteRequests requests to the     *)
(* admin routes of store.py, from two browser sessions, with or without a  *)
(* Supabase client.                                                        *)
(***************************************************************************)
\* the passwords a login form carries
LoginPasswords == {"", "wrong", DefaultPassword, MasterPassword, "secret2"}

AdminCall ==
    /\ requests < MaxRouteRequests
    /\ requests' = requests + 1
    /\ UNCHANGED <<products, cart, orders, last, okCheckouts, req, helperVars>>

ReqAdminLogin ==
    /\ AdminCall
    /\ \E s \in Sessions, pw \in LoginPasswords : admin_login(s, pw)
ReqAdminLogout ==
    /\ AdminCall
    /\ \E s \in Sessions : admin_logout(s)
ReqAdmin ==
    /\ AdminCall
    /\ \E s \in Sessions, selOK \in BOOLEAN, upOK \in BOOLEAN,
          cselOK \in BOOLEAN, cupOK \in BOOLEAN :
          admin(s, selOK, upOK, cselOK, cupOK)
ReqAdminSettingsGet ==
    /\ AdminCall
    /\ \E s \in Sessions : admin_settings_get(s)
ReqAdminSettingsPost ==
    /\ AdminCall
    /\ \E s \in Sessions, f \in SettingsForms, upOK \in BOOLEAN,
          setLogoOK \in BOOLEAN, setPhoneOK \in BOOLEAN, wrOK \in BOOLEAN :
          admin_settings_post(s, f, upOK, setLogoOK, setPhoneOK, wrOK)
ReqAdminAddProduct ==
    /\ AdminCall
    /\ \E s \in Sessions, named \in BOOLEAN, badImage \in BOOLEAN,
          qs \in QuantityFields \ {"None"},
          insOK \in BOOLEAN, selOK \in BOOLEAN, upOK \in BOOLEAN :
          admin_add_product(s, named, badImage, qs, insOK, selOK, upOK)
    /\ StoreBounded'
ReqAdminEditProduct ==
    /\ AdminCall
    /\ \E s \in Sessions, method \in {"GET", "POST"}, pid \in StorePids,
          named \in BOOLEAN, qs \in QuantityFields,
          selOK \in BOOLEAN, upOK \in BOOLEAN, updOK \in BOOLEAN,
          cselOK \in BOOLEAN, cupOK \in BOOLEAN :
          admin_edit_product(s, method, pid, named, qs, selOK, upOK, updOK, cselOK, cupOK)
    /\ StoreBounded'
ReqAdminDeleteProduct ==
    /\ AdminCall
    /\ \E s \in Sessions, pid \in StorePids,
          delOK \in BOOLEAN, selOK \in BOOLEAN, upOK \in BOOLEAN :
          admin_delete_product(s, pid, delOK, selOK, upOK)
ReqAdminCategories ==
    /\ AdminCall
    /\ \E s \in Sessions, method \in {"GET", "POST"}, raw \in CategoryNames,
          selOK \in BOOLEAN, insOK \in BOOLEAN, lselOK \in BOOLEAN, upOK \in BOOLEAN :
          admin_categories(s, method, raw, selOK, insOK, lselOK, upOK)
ReqAdminDeleteCategory ==
    /\ AdminCall
    /\ \E s \in Sessions, slug \in CategorySlugs, delOK \in BOOLEAN,
          lselOK \in BOOLEAN, cupOK \in BOOLEAN, changed \in BOOLEAN,
          selOK \in BOOLEAN, upOK \in BOOLEAN :
          admin_delete_category(s, slug, delOK, lselOK, cupOK, changed, selOK, upOK)
ReqAdminCategoryAddExisting ==
    /\ AdminCall
    /\ \E s \in Sessions, pid \in StorePids \cup {""},
          selOK \in BOOLEAN, upOK \in BOOLEAN :
          admin_category_add_existing(s, pid, selOK, upOK)

InitAdmin ==
    /\ AppInitial
    /\ HelpersInitial
    /\ AdminInitial
    /\ requests = 0
    /\ StoreInitial
    /\ sbOn \in BOOLEAN
    /\ whatsapp = FALSE

NextAdmin ==
    \/ ReqAdminLogin
    \/ ReqAdminLogout
    \/ ReqAdmin
    \/ ReqAdminSettingsGet
    \/ ReqAdminSettingsPost
    \/ ReqAdminAddProduct
    \/ ReqAdminEditProduct
    \/ ReqAdminDeleteProduct
    \/ ReqAdminCategories
    \/ ReqAdminDeleteCategory
    \/ ReqAdminCategoryAddExisting

SpecAdmin == InitAdmin /\ [][NextAdmin]_vars

(***************************************************************************)
(* SpecCategories: any sequence of at most MaxCategoryCalls calls of       *)
(* load_categories, add_category and delete_category of store.py, one at   *)
(* a time, with or without a Supabase client.                              *)
(***************************************************************************)
\* what a call of load_categories, add_category or delete_category
\* returned: ok and message are the pair add_category returns, name the
\* name it was called with and slug the slug derived from it
CRes(op, ok, message, name, slug) ==
    [op |-> op, ok |-> ok, message |-> message, name |-> name, slug |-> slug]

CategoryCall ==
    /\ requests < MaxCategoryCalls
    /\ requests' = requests + 1
    /\ UNCHANGED <<products, cart, orders, last, okCheckouts, req, helperVars>>
    /\ UNCHANGED <<is_admin, settingsFile, siteSettings, sbOn, whatsapp, proc>>

LoadCategories ==
    /\ CategoryCall
    /\ \E selOK \in BOOLEAN, upOK \in BOOLEAN :
          LET l == load_categories(catFile, catTable, selOK, upOK)
          IN  /\ catFile' = l.file
              /\ catTable' = l.table
              /\ slast' = CRes("load_categories", TRUE, "", <<>>, <<>>)
    /\ UNCHANGED <<dataFile, sbTable>>

AddCategory ==
    /\ CategoryCall
    /\ \E raw \in CategoryNames, selOK \in BOOLEAN, insOK \in BOOLEAN,
          lselOK \in BOOLEAN, upOK \in BOOLEAN :
          LET a == add_category(raw, catFile, catTable, selOK, insOK, lselOK, upOK)
          IN  /\ catFile' = a.file
              /\ catTable' = a.table
              /\ slast' = CRes("add_category", a.ok, a.message, raw, slug_of(strip(raw)))
    /\ UNCHANGED <<dataFile, sbTable>>

DeleteCategoryOfStore ==
    /\ CategoryCall
    /\ \E slug \in CategorySlugs, delOK \in BOOLEAN, lselOK \in BOOLEAN,
          cupOK \in BOOLEAN, changed \in BOOLEAN, selOK \in BOOLEAN, upOK \in BOOLEAN :
          LET w  == delete_category_cats(slug, catFile, catTable, delOK, lselOK, cupOK)
              l  == load_products(dataFile, sbTable, selOK, upOK)
              wp == save_products(l.rows, l.file, l.table, upOK)
          IN  /\ catFile' = w.file
              /\ catTable' = w.table
              /\ dataFile' = IF changed THEN wp.file ELSE l.file
              /\ sbTable' = IF changed THEN wp.table ELSE l.table
              /\ slast' = CRes("delete_category", TRUE, "", <<>>, slug)

InitCategories ==
    /\ AppInitial
    /\ HelpersInitial
    /\ AdminInitial
    /\ requests = 0
    /\ StoreInitial
    /\ sbOn \in BOOLEAN
    /\ whatsapp = FALSE

NextCategories ==
    \/ LoadCategories
    \/ AddCategory
    \/ DeleteCategoryOfStore

SpecCategories == InitCategories /\ [][NextCategories]_vars

(***************************************************************************)
(* SpecStoreConc: two workers each serving one checkout request at the     *)
(* same time, their reads and writes of the product store interleaved.     *)
(* The store holds the last unit of p1004 (as after update_product with    *)
(* quantity "1").                                                          *)
(***************************************************************************)
LastUnit == [x \in {"p1004", "p1005"} |-> IF x = "p1004" THEN 1 ELSE 0]

ConcPayloads ==
    {<<[id |-> "p1004", qty |-> 1]>>,
     <<[id |-> "p1005", qty |-> 1], [id |-> "p1004", qty |-> 1]>>}

InitStoreConc ==
    /\ AppInitial
    /\ AdminInitial
    /\ HelpersInitial
    /\ requests = 0
    /\ sbOn \in BOOLEAN
    /\ whatsapp = FALSE
    /\ dataFile = [exists |-> TRUE, rows |-> LastUnit]
    /\ sbTable = IF sbOn THEN LastUnit ELSE NoRows
    /\ proc = [p \in Workers |-> Idle]

ConcStart ==
    /\ StoreCounted
    /\ \E p \in Workers, c \in ConcPayloads, named \in BOOLEAN : checkout_start(p, c, named)
    /\ UNCHANGED <<appVars, helperVars, adminVars>>
ConcCheck ==
    /\ \E p \in Workers, selOK \in BOOLEAN, upOK \in BOOLEAN : checkout_check(p, selOK, upOK)
    /\ StoreStep
ConcReduceLoad ==
    /\ \E p \in Workers, selOK \in BOOLEAN, upOK \in BOOLEAN :
          checkout_reduce_load(p, selOK, upOK)
    /\ StoreStep
ConcReduceSave ==
    /\ \E p \in Workers, upOK \in BOOLEAN, updOK \in BOOLEAN :
          checkout_reduce_save(p, upOK, updOK)
    /\ StoreStep

NextStoreConc ==
    \/ ConcStart
    \/ ConcCheck
    \/ ConcReduceLoad
    \/ ConcReduceSave

SpecStoreConc == InitStoreConc /\ [][NextStoreConc]_vars

(***************************************************************************)
(* SpecHelpers: any sequence of at most MaxHelperCalls calls of the        *)
(* quantity helpers of supabase_helpers.py, one at a time, with writes of  *)
(* other clients to the table in between.                                  *)
(***************************************************************************)
ItemIds == 1 .. MaxItemId

\* quantities a row may hold
ItemQtys == (0 - MaxDebt) .. MaxItemQty

ItemRows == {QRow(q) : q \in ItemQtys} \cup {NullRow}

Deltas == (0 - MaxDelta) .. MaxDelta

HelpersBounded ==
    \A i \in DOMAIN menu_items : i <= MaxItemId /\ menu_items[i].quantity \in ItemQtys

HelperCall ==
    /\ requests < MaxHelperCalls
    /\ requests' = requests + 1
    /\ UNCHANGED <<appVars, storeVars, adminVars, hproc>>

ListItems ==
    /\ HelperCall
    /\ \E selOK \in BOOLEAN : list_items(selOK)
    /\ HelpersBounded'
RefreshCache ==
    /\ HelperCall
    /\ \E selOK \in BOOLEAN : refresh_cache_from_supabase(selOK)
    /\ HelpersBounded'
SetItemQuantity ==
    /\ HelperCall
    /\ \E i \in 1 .. (MaxItemId + 1), q \in ItemQtys, updOK \in BOOLEAN :
          set_item_quantity(i, q, updOK)
    /\ HelpersBounded'
ChangeItemQuantity ==
    /\ HelperCall
    /\ \E i \in 1 .. (MaxItemId + 1), d \in Deltas, selOK \in BOOLEAN, updOK \in BOOLEAN :
          change_item_quantity(i, d, selOK, updOK)
    /\ HelpersBounded'
WrittenElsewhere ==
    /\ HelperCall
    /\ \E i \in ItemIds, r \in ItemRows, present \in BOOLEAN :
          menu_items_written_elsewhere(i, r, present)
    /\ HelpersBounded'

InitializeCache ==
    /\ HelperCall
    /\ \E selOK \in BOOLEAN : initialize_cache_from_supabase(selOK)
    /\ HelpersBounded'
ListCategories ==
    /\ HelperCall
    /\ \E selOK \in BOOLEAN : list_categories(selOK)
    /\ HelpersBounded'
CreateItem ==
    /\ HelperCall
    /\ \E name \in {"", "Tea"}, hasQty \in BOOLEAN, q \in 0 .. MaxItemQty, insOK \in BOOLEAN :
          create_item(name, hasQty, q, insOK)
    /\ HelpersBounded'
DeleteItem ==
    /\ HelperCall
    /\ \E i \in 1 .. (MaxItemId + 1), delOK \in BOOLEAN : delete_item(i, delOK)
    /\ HelpersBounded'
DeleteCategory ==
    /\ HelperCall
    /\ \E i \in 1 .. (MaxCatId + 1) : delete_category(i)
    /\ HelpersBounded'
CategoriesWrittenElsewhere ==
    /\ HelperCall
    /\ \E i \in 1 .. MaxCatId, present \in BOOLEAN : menu_categories_written_elsewhere(i, present)
    /\ HelpersBounded'

InitHelpers ==
    /\ AppInitial
    /\ AdminInitial
    /\ requests = 0
    /\ StoreInitial
    /\ sbOn = FALSE
    /\ whatsapp = FALSE
    /\ HelpersInitial

NextHelpers ==
    \/ ListItems
    \/ RefreshCache
    \/ SetItemQuantity
    \/ ChangeItemQuantity
    \/ WrittenElsewhere
    \/ InitializeCache
    \/ ListCategories
    \/ CreateItem
    \/ DeleteItem
    \/ DeleteCategory
    \/ CategoriesWrittenElsewhere

SpecHelpers == InitHelpers /\ [][NextHelpers]_vars

(***************************************************************************)
(* SpecHelpersConc: two workers each calling change_item_quantity once on  *)
(* item 1, which holds MaxItemQty units; the select and the update of a    *)
(* call are separate requests to Supabase and interleave with the other    *)
(* worker's.  The products cache was loaded before (list_items).           *)
(***************************************************************************)
FullItem == [i \in {1} |-> QRow(MaxItemQty)]

InitHelpersConc ==
    /\ AppInitial
    /\ AdminInitial
    /\ requests = 0
    /\ StoreInitial
    /\ sbOn = FALSE
    /\ whatsapp = FALSE
    /\ menu_items = FullItem
    /\ products_cache \in {NoCache, [loaded |-> TRUE, rows |-> select_items(FullItem)]}
    /\ products_file = NoFile
    /\ hres = HRes("init", TRUE, 0, 0)
    /\ hproc = [w \in Workers |-> NotCalled]
    /\ menu_categories = {}
    /\ categories_cache = NoCache
    /\ categories_file = NoFile

ConcStep == UNCHANGED <<appVars, storeVars, adminVars, requests>> /\ HelpersBounded'

ChangeCall ==
    /\ \E w \in Workers, d \in Deltas : change_called(w, 1, d)
    /\ ConcStep
ChangeSelect ==
    /\ \E w \in Workers, selOK \in BOOLEAN : change_select(w, selOK)
    /\ ConcStep
ChangeUpdate ==
    /\ \E w \in Workers, updOK \in BOOLEAN : change_update(w, updOK)
    /\ ConcStep

NextHelpersConc ==
    \/ ChangeCall
    \/ ChangeSelect
    \/ ChangeUpdate

SpecHelpersConc == InitHelpersConc /\ [][NextHelpersConc]_vars

(***************************************************************************)
(* Properties                                                              *)
(***************************************************************************)
OrderOps == {"api_order_paypal", "api_order_mmg"}

\* the last request was an order request answered ok=true
OrderOk == last.op \in OrderOps /\ last.ok

SingleLine == <<[id |-> "p1004", qty |-> 1]>>

\* C1: two concurrent checkouts of one unit each of a product whose stock is
\* 1: exactly one returns ok=true, the other fails, and the stock ends at 0
\* (stated for the deployment without a Supabase client).
C1_ConcurrentCheckoutAtomic ==
    (/\ ~sbOn
     /\ \A p \in Workers : proc[p].pc = "done" /\ proc[p].cart = SingleLine)
    => /\ Cardinality({p \in Workers : proc[p].ok}) = 1
       /\ \A p \in Workers : ~proc[p].ok =>
             proc[p].message \in {"Stock check failed", "Stock reduction failed"}
       /\ QtyIn(StockView, "p1004") = 0

\* C2: a store.py checkout that returns ok=false leaves every product's stock
\* as it was before the request (stated for the deployment without a
\* Supabase client).
C2_FailedCheckoutLeavesStock ==
    (~sbOn /\ proc[1].pc = "done" /\ ~proc[1].ok)
    => \A x \in StorePids : QtyIn(StockView, x) = QtyIn(proc[1].before, x)

\* C3: a checkout with an empty cart returns a failure: store.py checkout
\* with a payload cart of no lines answers ok=false.
C3_EmptyCartRejected ==
    (proc[1].pc = "done" /\ proc[1].cart = <<>>) => ~proc[1].ok

\* C3, the app.py half: an order request of a session whose cart resolves to
\* no item is answered with an error and changes no order and no cart.
C3_EmptyCartRejectedApp ==
    [][(/\ last'.op \in OrderOps
        /\ \A k \in DOMAIN cart[last'.sid] : ~(IsNumeric(k) /\ HasProduct(IntOfStr(k))))
       => (~last'.ok /\ orders' = orders /\ cart' = cart /\ products' = products)]_vars

\* C4: every entry stored in a session cart has quantity >= 1.
C4_CartQuantitiesPositive ==
    \A s \in Sessions : \A k \in DOMAIN cart[s] : cart[s][k] >= 1

\* C4 witness: api_cart_add has just stored an entry, and the cart of its
\* session holds an entry of quantity 1 and an entry of a larger quantity.
C4_Witness ==
    /\ last.op = "api_cart_add"
    /\ last.ok
    /\ \E k \in DOMAIN cart[last.sid] : cart[last.sid][k] = 1
    /\ \E k \in DOMAIN cart[last.sid] : cart[last.sid][k] = MaxQty

\* C5: the quantity of every product of store.py is >= 0, in products.json
\* and in the Supabase table.
C5_StockNeverNegative ==
    /\ \A x \in DOMAIN dataFile.rows : dataFile.rows[x] >= 0
    /\ \A x \in DOMAIN sbTable : sbTable[x] >= 0

\* the products the entries of cart c resolve to
ResolvedIds(c) == {n \in DOMAIN products : StrOfInt(n) \in DOMAIN c}

RECURSIVE CatalogTotal(_, _)
CatalogTotal(c, ids) ==
    IF ids = {} THEN 0
    ELSE LET n == CHOOSE x \in ids : TRUE
         IN  products[n].price * c[StrOfInt(n)] + CatalogTotal(c, ids \ {n})

\* order o holds, for cart c, one line per resolved product with the
\* catalog's name and price and the cart's quantity, and their sum
MatchesCatalog(o, c) ==
    /\ {o.items_json[j].id : j \in DOMAIN o.items_json} = ResolvedIds(c)
    /\ Len(o.items_json) = Cardinality(ResolvedIds(c))
    /\ \A j \in DOMAIN o.items_json :
          LET it == o.items_json[j] IN
          /\ it.name = products[it.id].name
          /\ CentsOfRepr(it.price) = products[it.id].price
          /\ it.qty = c[StrOfInt(it.id)]
    /\ o.subtotal = CatalogTotal(c, ResolvedIds(c))

\* C6: an order is created with the catalog's names and prices and the
\* cart's quantities of the moment of checkout, and no later request changes
\* or removes an order that exists.
C6_OrderSnapshotFrozen ==
    [][/\ Len(orders') >= Len(orders)
       /\ \A n \in 1 .. Len(orders) : orders'[n] = orders[n]
       /\ Len(orders') > Len(orders) =>
             /\ Len(orders') = Len(orders) + 1
             /\ MatchesCatalog(orders'[Len(orders')], cart[last'.sid])]_vars

\* C6 witness: an admin edit or delete has acted after an order was created,
\* and a line of the order differs from the catalog of now.
C6_Witness ==
    /\ last.op \in {"admin_products_edit", "admin_products_delete"}
    /\ last.ok
    /\ \E n \in DOMAIN orders : \E j \in DOMAIN orders[n].items_json :
          LET it == orders[n].items_json[j] IN
          \/ it.id \notin DOMAIN products
          \/ /\ it.id \in DOMAIN products
             /\ products[it.id].price # CentsOfRepr(it.price)
             /\ products[it.id].name # it.name

\* C7: an order request answered ok=true leaves the cart of its session
\* empty and the cart of every other session as it was.
C7_CartClearedAfterCheckout ==
    [][OrderOk' =>
         /\ cart'[last'.sid] = EmptyCart
         /\ \A t \in Sessions \ {last'.sid} : cart'[t] = cart[t]]_vars

\* C7 witness: a checkout succeeded while another session holds a cart.
C7_Witness ==
    /\ OrderOk
    /\ cart[last.sid] = EmptyCart
    /\ \E t \in Sessions \ {last.sid} : cart[t] # EmptyCart

\* C9: the number of orders equals the number of order requests answered
\* ok=true so far.
C9_OneOrderPerSuccessfulCheckout == Len(orders) = okCheckouts

\* C9 witness: two checkouts succeeded and a third order request failed.
C9_Witness ==
    /\ okCheckouts = 2
    /\ last.op \in OrderOps
    /\ ~last.ok

\* C10: an order created by api_order_mmg is 'pending'; an order created by
\* api_order_paypal is 'paid' and the payment provider had confirmed the
\* payment.
C10_StatusFollowsEntryPoint ==
    /\ (last.op = "api_order_mmg" /\ last.ok) => orders[Len(orders)].status = "pending"
    /\ (last.op = "api_order_paypal" /\ last.ok) =>
          (orders[Len(orders)].status = "paid" /\ last.confirmed)

\* C8: a store.py checkout answered ok=true for lines of distinct products
\* with qty >= 1 leaves each product's stock at its stock before the request
\* minus the qty of its line, and the other products' stock unchanged.
C8_SuccessfulCheckoutDecrementsExactly ==
    LET r == proc[1]
        lineQty(x) == IF \E j \in DOMAIN r.cart : r.cart[j].id = x
                      THEN r.cart[CHOOSE j \in DOMAIN r.cart : r.cart[j].id = x].qty
                      ELSE 0
    IN  (/\ r.pc = "done"
         /\ r.ok
         /\ \A j1, j2 \in DOMAIN r.cart : r.cart[j1].id = r.cart[j2].id => j1 = j2
         /\ \A j \in DOMAIN r.cart : r.cart[j].qty >= 1)
        => \A x \in StorePids : QtyIn(StockView, x) = QtyIn(r.before, x) - lineQty(x)

\* C11: the status of every order is 'pending' or 'paid'; no request removes
\* an order, and the only change a request makes to the status of an existing
\* order, if any, is from 'pending' to 'paid'.
C11_OrderStatusOneWay ==
    [][/\ \A n \in 1 .. Len(orders') : orders'[n].status \in {"pending", "paid"}
       /\ \A n \in 1 .. Len(orders) :
             /\ n <= Len(orders')
             /\ \/ orders'[n].status = orders[n].status
                \/ orders[n].status = "pending" /\ orders'[n].status = "paid"]_vars

\* C11 witness: a 'pending' and a 'paid' order exist and a later request
\* that is not an order request has been served.
C11_Witness ==
    /\ \E n \in DOMAIN orders : orders[n].status = "pending"
    /\ \E n \in DOMAIN orders : orders[n].status = "paid"
    /\ last.op \notin OrderOps

\* a cart line the stock check is to refuse on the products in rows: the
\* product is missing, out of stock, or has less stock than the line asks for
Offending(rows, line) ==
    \/ line.id \notin DOMAIN rows
    \/ rows[line.id] <= 0
    \/ rows[line.id] < line.qty

\* C12: every turn of the stock check of store.py checkout adds one entry
\* to 'errors' for its line when the line is offending on the products it
\* loads, and none when the line passes; after the last line the checkout
\* fails with "Stock check failed" exactly when 'errors' is not empty.
C12_ErrorsNameEveryOffendingLine ==
    [][proc[1].pc = "check" =>
         LET r == proc[1] IN
         /\ \E selOK \in BOOLEAN :
               LET rows == load_products(dataFile, sbTable, selOK, TRUE).rows IN
               IF Offending(rows, r.cart[r.i])
               THEN /\ Len(proc'[1].errors) = Len(r.errors) + 1
                    /\ SubSeq(proc'[1].errors, 1, Len(r.errors)) = r.errors
                    /\ proc'[1].errors[Len(r.errors) + 1].line = r.i
               ELSE proc'[1].errors = r.errors
         /\ r.i = Len(r.cart) =>
               IF proc'[1].errors # <<>>
               THEN /\ proc'[1].pc = "done"
                    /\ ~proc'[1].ok
                    /\ proc'[1].message = "Stock check failed"
               ELSE proc'[1].pc = "reduce_load"]_vars

\* C12 witness: a checkout of two lines failed the stock check and 'errors'
\* names both lines.
C12_Witness ==
    /\ proc[1].pc = "done"
    /\ proc[1].message = "Stock check failed"
    /\ Len(proc[1].cart) = 2
    /\ Len(proc[1].errors) = 2
    /\ proc[1].errors[1].line = 1
    /\ proc[1].errors[2].line = 2

\* the sum of price x qty over the lines of an order from position i on
RECURSIVE OrderLinesTotal(_, _)
OrderLinesTotal(items, i) ==
    IF i > Len(items) THEN 0
    ELSE CentsOfRepr(items[i].price) * items[i].qty + OrderLinesTotal(items, i + 1)

\* C13: for the cart of every session, when cart_items_and_total returns,
\* its items are exactly the entries whose product exists, each line_total
\* is the catalog price times the quantity of the entry, and the total is
\* the sum of these; the subtotal of every order is the sum of price x qty
\* over its lines.
C13_TotalIsSumOfLines ==
    /\ \A s \in Sessions :
          LET c == cart[s]
              r == cart_items_and_total(c)
          IN  ~r.raised =>
                /\ {r.items[j].id : j \in DOMAIN r.items} = ResolvedIds(c)
                /\ Len(r.items) = Cardinality(ResolvedIds(c))
                /\ \A j \in DOMAIN r.items :
                      /\ r.items[j].qty = c[StrOfInt(r.items[j].id)]
                      /\ r.items[j].line_total =
                            products[r.items[j].id].price * c[StrOfInt(r.items[j].id)]
                /\ r.total = CatalogTotal(c, ResolvedIds(c))
    /\ \A n \in DOMAIN orders :
          orders[n].subtotal = OrderLinesTotal(orders[n].items_json, 1)

\* C13 witness: an order of two lines, one of them of quantity 2, exists and
\* a session holds a cart with a resolvable entry.
C13_Witness ==
    /\ \E n \in DOMAIN orders :
          /\ Len(orders[n].items_json) = 2
          /\ \E j \in DOMAIN orders[n].items_json : orders[n].items_json[j].qty = 2
    /\ \E s \in Sessions : ResolvedIds(cart[s]) # {}

\* C14: api_cart_add answers ok=false when the product of the request does
\* not exist or is inactive, and an api_cart_add answered ok=false leaves the
\* cart of every session as it was.
C14_AddFailureLeavesCart ==
    [][last'.op = "api_cart_add" =>
         LET n == IntOfStr(req'.key) IN
         /\ (n \notin DOMAIN products \/ ~products[n].is_active) => ~last'.ok
         /\ ~last'.ok => cart' = cart]_vars

\* C14 witness: api_cart_add was refused for an inactive product while the
\* cart of the session holds an entry.
C14_Witness ==
    /\ last.op = "api_cart_add"
    /\ ~last.ok
    /\ IntOfStr(req.key) \in DOMAIN products
    /\ ~products[IntOfStr(req.key)].is_active
    /\ cart[last.sid] # EmptyCart

\* C15: an api_cart_add with qty >= 1 answered ok=true raises the entry of
\* its product by exactly qty (from 0 when it was absent), leaves every other
\* entry and every other session's cart as it was, and returns as cart_count
\* the sum of the quantities of all entries of the cart after the call.
C15_AddRaisesEntryByQty ==
    [][(last'.op = "api_cart_add" /\ last'.ok /\ req'.qty >= 1) =>
         LET s  == last'.sid
             k  == req'.key
             c  == cart[s]
             c2 == cart'[s]
         IN  /\ DOMAIN c2 = (DOMAIN c) \cup {k}
             /\ c2[k] = (IF k \in DOMAIN c THEN c[k] ELSE 0) + req'.qty
             /\ \A x \in (DOMAIN c) \ {k} : c2[x] = c[x]
             /\ \A t \in Sessions \ {s} : cart'[t] = cart[t]
             /\ last'.cart_count = SumOver(c2, DOMAIN c2)]_vars

\* C15 witness: api_cart_add with qty 2 succeeded on a cart that held another
\* entry, and returned the cart_count 3.
C15_Witness ==
    /\ last.op = "api_cart_add"
    /\ last.ok
    /\ req.qty = 2
    /\ Cardinality(DOMAIN cart[last.sid]) = 2
    /\ last.cart_count = 3

\* the entries of c2 other than k are those of c, unchanged
OthersKept(c, c2, k) ==
    /\ (DOMAIN c2) \ {k} = (DOMAIN c) \ {k}
    /\ \A x \in (DOMAIN c) \ {k} : c2[x] = c[x]

\* the effect of api_cart_update and api_cart_remove on the cart: with
\* qty <= 0 (and for remove) the entry is gone, with qty >= 1 it is exactly
\* qty; the other entries and the other sessions' carts are as before; and
\* the same call once more would leave the cart as it is now.
CartEffect ==
    LET s  == last'.sid
        k  == req'.key
        q  == req'.qty
        c  == cart[s]
        c2 == cart'[s]
    IN  /\ last'.op = "api_cart_update" =>
              /\ q <= 0 => k \notin DOMAIN c2
              /\ q >= 1 => (k \in DOMAIN c2 /\ c2[k] = q)
              /\ OthersKept(c, c2, k)
              /\ \A t \in Sessions \ {s} : cart'[t] = cart[t]
              /\ cart_updated(c2, k, q) = c2
        /\ last'.op = "api_cart_remove" =>
              /\ k \notin DOMAIN c2
              /\ OthersKept(c, c2, k)
              /\ \A t \in Sessions \ {s} : cart'[t] = cart[t]
              /\ DictPop(c2, k) = c2

\* removing an entry that is absent is answered ok=true and changes no cart
AbsentRemovalNoError ==
    LET k == req'.key
        c == cart[last'.sid]
    IN  (/\ \/ last'.op = "api_cart_update" /\ req'.qty <= 0
            \/ last'.op = "api_cart_remove"
         /\ k \notin DOMAIN c)
        => (last'.ok /\ cart' = cart)

\* C16: api_cart_update with qty <= 0 removes the entry, and doing so for an
\* absent entry is not an error and leaves the cart unchanged; with qty >= 1
\* the entry becomes exactly qty; api_cart_remove deletes the entry if
\* present and is a no-op otherwise; every other entry is unchanged and
\* repeating the call leaves the cart as after the first call.
C16_UpdateRemoveIdempotent == [][CartEffect /\ AbsentRemovalNoError]_vars

\* C16, the effect on the cart alone (without the answer of the request)
C16_CartEffect == [][CartEffect]_vars

\* C17: an api_cart_update answered ok=true returns as cart_count the sum of
\* the quantities of the cart and, when its product is still in the cart and
\* in the catalog, as subtotal the line subtotal of that product: its
\* catalog price times the new quantity.
C17_UpdateReturnsLineSubtotal ==
    (last.op = "api_cart_update" /\ last.ok) =>
        LET c == cart[last.sid]
            k == req.key
        IN  /\ last.cart_count = SumOver(c, DOMAIN c)
            /\ (k \in DOMAIN c /\ IsNumeric(k) /\ HasProduct(IntOfStr(k))) =>
                  CentsOfRepr(last.subtotal) = products[IntOfStr(k)].price * c[k]

\* C17 as amended: an api_cart_update answered ok=true returns as cart_count
\* the sum of the quantities of the cart and as subtotal the subtotal of the
\* whole cart: the sum of catalog price x quantity over every entry whose
\* product exists.
C17_UpdateReturnsCartSubtotal ==
    (last.op = "api_cart_update" /\ last.ok) =>
        LET c == cart[last.sid] IN
        /\ last.cart_count = SumOver(c, DOMAIN c)
        /\ CentsOfRepr(last.subtotal) = CatalogTotal(c, ResolvedIds(c))

\* C17 witness: api_cart_update succeeded for a product that is still in
\* the cart, next to another resolvable entry, and the subtotal returned is
\* not the line subtotal of the updated product.
C17_Witness ==
    /\ last.op = "api_cart_update"
    /\ last.ok
    /\ req.key \in DOMAIN cart[last.sid]
    /\ HasProduct(IntOfStr(req.key))
    /\ Cardinality(ResolvedIds(cart[last.sid])) = 2
    /\ CentsOfRepr(last.subtotal) #
          products[IntOfStr(req.key)].price * cart[last.sid][req.key]

\* C18: when admin_products_delete deletes a product, cart_items_and_total
\* still returns for every session cart for which it returned before; its
\* items are the items of before without the line of the deleted product,
\* and its total is the total of before less that line's total.
C18_StaleEntrySkipped ==
    [][(last'.op = "admin_products_delete" /\ last'.ok) =>
         \A s \in Sessions :
            LET r      == cart_items_and_total(cart[s])
                r2     == cart_items_and_total(cart[s])'
                d      == IntOfStr(req'.key)
                Keep(it) == it.id # d
                gone   == SelectSeq(r.items, LAMBDA it : it.id = d)
            IN  ~r.raised =>
                  /\ ~r2.raised
                  /\ r2.items = SelectSeq(r.items, Keep)
                  /\ r2.total = r.total - SumLines(gone, 1)]_vars

\* C18 witness: a product was deleted while a session cart holds an entry
\* of it next to an entry of a product that exists.
C18_Witness ==
    /\ last.op = "admin_products_delete"
    /\ last.ok
    /\ \E s \in Sessions :
          /\ req.key \in DOMAIN cart[s]
          /\ ResolvedIds(cart[s]) # {}
          /\ ~cart_items_and_total(cart[s]).raised

\* the sum of the qty of the lines of product x in a payload cart, from
\* position i on
RECURSIVE LinesQty(_, _, _)
LinesQty(c, x, i) ==
    IF i > Len(c) THEN 0
    ELSE (IF c[i].id = x THEN c[i].qty ELSE 0) + LinesQty(c, x, i + 1)

\* C19: store.py checkout answers ok=true only when the decrement of every
\* line is in the product store: the stock the application reads is, for
\* every product, the stock before the request less the qty of its lines.
C19_OkOnlyWhenDecrementsWritten ==
    (/\ proc[1].pc = "done"
     /\ proc[1].ok
     /\ \A j \in DOMAIN proc[1].cart : proc[1].cart[j].qty >= 1) =>
        \A x \in StorePids :
            QtyIn(StockView, x) = QtyIn(proc[1].before, x) - LinesQty(proc[1].cart, x, 1)

\* C19, the app.py half: an order request whose commit fails (answered 500)
\* creates no order and leaves every cart as it was.
C19_CommitFailureKeepsCart ==
    [][(last'.op \in OrderOps /\ ~last'.ok) => (orders' = orders /\ cart' = cart)]_vars


\* the entries of a cache kept for an item
EntriesOf(c, item_id) == {i \in 1 .. Len(c.rows) : c.rows[i].id = item_id}

\* the step is a call of change_item_quantity
ChangeCalled == requests' = requests + 1 /\ hres'.op = "change_item_quantity"

\* C20: change_item_quantity(item_id, delta) takes the current quantity from
\* the menu_items table, not from the cache, and writes max(0, current +
\* delta), which is never negative; when it returns True, the cache entry of
\* the item holds that new quantity; when it returns False, neither the
\* table nor the cache has changed.
C20_ChangeItemQuantity ==
    [][ChangeCalled =>
          LET item_id == hres'.id
              delta == hres'.arg
          IN  IF hres'.ok
              THEN /\ item_id \in DOMAIN menu_items
                   /\ ~menu_items[item_id].null
                   /\ menu_items' =
                        [menu_items EXCEPT ![item_id] =
                            QRow(Max(0, menu_items[item_id].quantity + delta))]
                   /\ menu_items'[item_id].quantity >= 0
                   /\ \A i \in EntriesOf(products_cache', item_id) :
                         /\ ~products_cache'.rows[i].null
                         /\ products_cache'.rows[i].quantity
                               = menu_items'[item_id].quantity
              ELSE /\ menu_items' = menu_items
                   /\ products_cache' = products_cache]_vars

\* change_item_quantity returned True for a reduction below zero of an item
\* the cache holds: the table and the cache entry hold 0
C20_Witness ==
    /\ hres.op = "change_item_quantity"
    /\ hres.ok
    /\ hres.arg = 0 - MaxDelta
    /\ hres.id \in DOMAIN menu_items
    /\ menu_items[hres.id] = QRow(0)
    /\ \E i \in EntriesOf(products_cache, hres.id) : products_cache.rows[i].quantity = 0


\* C21: two concurrent calls change_item_quantity(1, d1) and
\* change_item_quantity(1, d2) from the quantity q = MaxItemQty, with
\* q + d1 >= 0, q + d2 >= 0 and q + d1 + d2 >= 0: once both have returned
\* True, the stored quantity is q + d1 + d2, whatever the interleaving of
\* their selects and updates.
C21_NoLostUpdate ==
    LET d1 == hproc[1].delta
        d2 == hproc[2].delta
    IN  (/\ \A w \in Workers : hproc[w].pc = "done" /\ hproc[w].ok
         /\ MaxItemQty + d1 >= 0
         /\ MaxItemQty + d2 >= 0
         /\ MaxItemQty + d1 + d2 >= 0)
        => menu_items[1].quantity = MaxItemQty + d1 + d2


\* the step is a call of create_item with a non-empty name
CreateNamed ==
    /\ requests' = requests + 1
    /\ hres'.op = "create_item"
    /\ hres'.name # ""

\* C22: create_item with a non-empty name returns the new item and adds it
\* to the products cache, so that list_items() (the cache) contains it and
\* get_item(its id) returns it from the cache alone, whether or not the
\* insert into Supabase succeeded.
C22_CreateItemCached ==
    [][CreateNamed =>
          /\ hres'.ok
          /\ Len(products_cache'.rows) = Len(products_cache.rows) + 1
          /\ get_item(products_cache', NoItems,
                      products_cache'.rows[Len(products_cache'.rows)].id, FALSE).found]_vars

\* the step is a call of delete_item or delete_category
DeleteCalled ==
    /\ requests' = requests + 1
    /\ hres'.op \in {"delete_item", "delete_category"}

\* the entries of a sequence of rows whose id is not the given one, in order
RECURSIVE Without(_, _)
Without(rows, id) ==
    IF rows = <<>> THEN <<>>
    ELSE IF Head(rows).id = id THEN Without(Tail(rows), id)
         ELSE <<Head(rows)>> \o Without(Tail(rows), id)

\* C23: delete_item(item_id) and delete_category(category_id) return True
\* and remove the matching entry from the products cache, the categories
\* cache respectively, leaving every other cached entry in place.
C23_DeleteRemovesCacheEntry ==
    [][DeleteCalled =>
          /\ hres'.ok
          /\ hres'.op = "delete_item" =>
                products_cache'.rows = Without(products_cache.rows, hres'.id)
          /\ hres'.op = "delete_category" =>
                categories_cache'.rows = Without(categories_cache.rows, hres'.id)]_vars

\* the caches and their files hold what the selects of this step returned
CachesLoaded ==
    LET cats == select_categories(menu_categories)
        want == IF cats = <<>> THEN <<DefaultAll>> ELSE cats
    IN  /\ products_cache' = [loaded |-> TRUE, rows |-> select_items(menu_items)]
        /\ categories_cache' = [loaded |-> TRUE, rows |-> want]
        /\ categories_file' = [exists |-> TRUE, rows |-> want]
        /\ select_items(menu_items) # <<>> =>
              products_file' = [exists |-> TRUE, rows |-> select_items(menu_items)]

\* C24: when initialize_cache_from_supabase returns True, the products and
\* categories caches, and the JSON files written from them, hold the
\* products and categories just read from Supabase, with the single default
\* 'All' category when Supabase has none, as after
\* refresh_cache_from_supabase.
C24_InitializeLoadsCaches ==
    [][(/\ requests' = requests + 1
        /\ hres'.op = "initialize_cache_from_supabase"
        /\ hres'.ok) => CachesLoaded]_vars

\* the same of refresh_cache_from_supabase
C24_RefreshLoadsCaches ==
    [][(/\ requests' = requests + 1
        /\ hres'.op = "refresh_cache_from_supabase"
        /\ hres'.ok) => CachesLoaded]_vars


\* the step is a call of delete_product, of the product req'.key
DeleteProductCalled == requests' = requests + 1 /\ req'.key \in StorePids

\* C25: after delete_product(pid) returned True (it always does),
\* load_products() does not contain pid and so get_product_by_id(pid) is
\* None, with or without a Supabase client, with or without products.json,
\* and also when pid was the last row of the Supabase table.
C25_DeletedStaysDeleted ==
    [][DeleteProductCalled =>
          \A selOK \in BOOLEAN, upOK \in BOOLEAN :
              req'.key \notin DOMAIN load_products(dataFile', sbTable', selOK, upOK).rows]_vars

\* the same for the deployment without a Supabase client
C25_DeletedStaysDeletedLocal ==
    [][(DeleteProductCalled /\ ~sbOn) =>
          \A selOK \in BOOLEAN, upOK \in BOOLEAN :
              req'.key \notin DOMAIN load_products(dataFile', sbTable', selOK, upOK).rows]_vars


\* C26: POST /api/cart/checkout never increases a product's stock: when the
\* request has been answered, each product's stock is at most its stock
\* before the request, for every payload cart (any qty, zero and negative
\* integers included).
C26_CheckoutNeverIncreasesStock ==
    proc[1].pc = "done"
    => \A x \in StorePids : QtyIn(StockView, x) <= QtyIn(proc[1].before, x)

\* the same for the payload carts whose every qty is at least 1, in the
\* deployment without a Supabase client
C26_PositiveQtyNeverIncreasesStock ==
    (/\ proc[1].pc = "done"
     /\ ~sbOn
     /\ \A i \in 1 .. Len(proc[1].cart) : proc[1].cart[i].qty >= 1)
    => \A x \in StorePids : QtyIn(StockView, x) <= QtyIn(proc[1].before, x)


\* the admin_password load_settings() returns: the one of settings.json, or
\* the default when there is no settings.json
StoredPassword ==
    IF settingsFile.exists THEN settingsFile.keys.admin_password ELSE DefaultPassword

\* the admin routes behind the gate
AdminRoutes ==
    {"admin", "admin_settings", "admin_add_product", "admin_edit_product",
     "admin_delete_product", "admin_categories", "admin_delete_category",
     "admin_category_add_existing"}

\* C27: is_admin of a session becomes true only by an admin_login of that
\* session whose non-empty password equals the stored admin_password;
\* admin_logout leaves the session without is_admin; a request to an admin
\* route from a session without is_admin is answered by the redirect to the
\* login page and changes no product, no category and no setting.
C27_AdminGate ==
    [][/\ \A s \in Sessions :
             (is_admin'[s] /\ ~is_admin[s]) =>
                 /\ slast'.op = "admin_login"
                 /\ slast'.sid = s
                 /\ slast'.pw # ""
                 /\ slast'.pw = StoredPassword
       /\ (requests' = requests + 1 /\ slast'.op = "admin_logout") =>
              ~is_admin'[slast'.sid]
       /\ (/\ requests' = requests + 1
           /\ slast'.op \in AdminRoutes
           /\ ~is_admin[slast'.sid]) =>
              /\ slast'.login
              /\ UNCHANGED <<dataFile, sbTable, catFile, catTable,
                             settingsFile, siteSettings, is_admin>>]_vars

\* a delete request of a session that is not logged in was sent to the login
\* page while the other session is logged in with a changed password
C27_Witness ==
    /\ slast.op = "admin_delete_product"
    /\ slast.login
    /\ slast.sid = "s2"
    /\ is_admin["s1"]
    /\ StoredPassword = "secret2"

\* C28: an admin_settings POST that is rejected writes no setting: neither
\* settings.json nor the site_settings table changes, so that load_settings()
\* returns what it returned before.
C28_RejectedSettingsPersistNothing ==
    [][(/\ requests' = requests + 1
        /\ slast'.op = "admin_settings"
        /\ slast'.rejected) =>
           UNCHANGED <<settingsFile, siteSettings>>]_vars

\* a rejected admin_settings POST leaves settings.json as it was
C28_RejectedLeavesSettingsFile ==
    [][(/\ requests' = requests + 1
        /\ slast'.op = "admin_settings"
        /\ slast'.rejected) =>
           UNCHANGED settingsFile]_vars


\* a list of categories holds no slug twice
UniqueSlugs(cats) ==
    \A i \in 1 .. Len(cats), j \in 1 .. Len(cats) : cats[i].slug = cats[j].slug => i = j

\* an add_category call has just returned
AddCalled == requests' = requests + 1 /\ slast'.op = "add_category"

\* C29: after any sequence of add_category and delete_category the list of
\* categories holds every slug once; add_category with a name whose derived
\* slug is already in the list returns (False, 'Category already exists') and
\* leaves the list as it was; with a blank name it returns (False, 'Category
\* name required') and changes nothing.
C29_CategorySlugsUnique ==
    [][/\ UniqueSlugs(CategoryView(catFile, catTable)')
       /\ (catFile.exists)' => UniqueSlugs(catFile.rows')
       /\ (AddCalled /\ strip(slast'.name) = <<>>) =>
              /\ ~slast'.ok
              /\ slast'.message = "Category name required"
              /\ UNCHANGED <<catFile, catTable>>
       /\ (/\ AddCalled
           /\ strip(slast'.name) # <<>>
           /\ slast'.slug \in Slugs(CategoryView(catFile, catTable))) =>
              /\ ~slast'.ok
              /\ slast'.message = "Category already exists"
              /\ CategoryView(catFile, catTable)' = CategoryView(catFile, catTable)]_vars


\* the part of C29 that holds: every slug is in the list once, a blank name
\* is turned down, and without a Supabase client a name whose slug is in the
\* list is turned down
C29_SlugsUniqueAndLocalDuplicatesRejected ==
    [][/\ UniqueSlugs(CategoryView(catFile, catTable)')
       /\ (catFile.exists)' => UniqueSlugs(catFile.rows')
       /\ (AddCalled /\ strip(slast'.name) = <<>>) =>
              /\ ~slast'.ok
              /\ slast'.message = "Category name required"
              /\ UNCHANGED <<catFile, catTable>>
       /\ (/\ AddCalled
           /\ strip(slast'.name) # <<>>
           /\ ~sbOn
           /\ slast'.slug \in Slugs(CategoryView(catFile, catTable))) =>
              /\ ~slast'.ok
              /\ slast'.message = "Category already exists"
              /\ CategoryView(catFile, catTable)' = CategoryView(catFile, catTable)]_vars


\* an order request has just been answered
OrderCalled == requests' = requests + 1 /\ last'.op \in OrderOps

\* a customer record with a field that is empty after trimming
FieldMissing(info) ==
    \E f \in {"name", "email", "phone", "address"} : info[f] \in {"", " "}

\* C30: an order request of app.py whose name, email, phone or address is
\* empty after trimming is answered with an error, creates no order and
\* leaves the cart of every session as it was.
C30_MissingCustomerInfoRejected ==
    [][(OrderCalled /\ FieldMissing(req'.info)) =>
           /\ ~last'.ok
           /\ last'.err = "Missing customer information."
           /\ orders' = orders
           /\ cart' = cart]_vars

\* C30 witness: an order request with a blank field was turned down while
\* the cart of its session holds a product and an earlier order stands
C30_Witness ==
    /\ last.op \in OrderOps
    /\ "info" \in DOMAIN req
    /\ FieldMissing(req.info)
    /\ ~last.ok
    /\ cart[last.sid] # EmptyCart
    /\ Len(orders) = 1

============================================================================
